---------------------------- MODULE Spec2Model ----------------------------
(***************************************************************************)
(* Model of telemetry's PageTestResults (the story-run result ledger).     *)
(*                                                                         *)
(* One PageTestResults object is modelled by the record held in the        *)
(* variable `results`; its fields are the attributes of the Python object  *)
(* (without the leading underscore).  Every public method is an operator   *)
(* from (self, arguments) to the outcome of the call: the object after the *)
(* call, the exception that left the call (None when it returned) and the  *)
(* calls it made on its collaborators (progress reporter, results stream), *)
(* in the order it made them.  An action applies one method to `results`.  *)
(*                                                                         *)
(* StoryRun (story_run.py) and GTestProgressReporter are other modules of  *)
(* telemetry: StoryRun is modelled from its description (sections 3 and    *)
(* 4.3 of the specification), the reporter as the list of calls made.      *)
(*                                                                         *)
(* The module also models DesktopBrowserBackend, the supervisor of one     *)
(* browser process.  The object is the record held in `backend`, the       *)
(* processes, files and directories it works on are held in `machine`.     *)
(* A method is an operator on frames: the object and the host so far, the  *)
(* exception that left the call, the value returned and the calls made on  *)
(* collaborators.  What the collaborators do (a call raises, the browser   *)
(* ends within a wait, the symbolizer finds a stack) is an input of the    *)
(* call.  ChromeBrowserBackend, exc_util.BestEffort and MinidumpFinder     *)
(* are outside this source and modelled from their description.            *)
(*                                                                         *)
(* Spec is the ledger, SpecBackend the life of the browser process, and    *)
(* SpecMinidumps the collection of crash reports.  SpecWait is the wait    *)
(* for a crash report: GetRecentMinidumpPathWithTimeout runs its loop one  *)
(* step at a time, while the clock of the host moves on and the browser    *)
(* writes minidumps.                                                       *)
(***************************************************************************)
EXTENDS Integers, Sequences, FiniteSets, TLC

VARIABLES
    results,   \* the PageTestResults object
    io,        \* calls made on the progress reporter and the results stream
    last,      \* the last method called on the object: its name, the cause given
               \* to it (Finalize), the exception that left it, and whether it
               \* found the object finalized and a story run in progress
    created,   \* number of StoryRun objects constructed so far
    backend,   \* the DesktopBrowserBackend object
    machine,   \* the host the supervisor runs on: the processes it spawned,
               \* the output files it created, the minidump directory
    blast,     \* the last method called on the supervisor, or the last step
               \* of the host: its name, the exception that left it, the value
               \* it returned and the calls it made on collaborators
    now,       \* the clock of the host: what time.time() returns
    mtimes,    \* the modification time of each minidump of `machine`
    wait       \* the call of GetRecentMinidumpPathWithTimeout in progress:
               \* where it is in its loop, its arguments and local variables

vars == <<results, io, last, created, backend, machine, blast, now, mtimes, wait>>

-----------------------------------------------------------------------------
(* Bounds of the model *)

\* StoryRun objects a behaviour may construct
MaxRuns == 2

\* browser processes and output files a behaviour may create
MaxSpawns == 2

\* the last reading of the clock
MaxTime == 3

\* polls of the minidump finder recorded for one call before the clock moves on
MaxPolls == 2

-----------------------------------------------------------------------------
(* Values *)

\* Python's None, in slots that otherwise hold a string
None == "None"

DIAGNOSTICS_NAME == "diagnostics.json"

\* Inputs the actions draw from.  One page, one measurement name and one
\* failure keep the state space small; two units, a non-numeric sample, an
\* empty and two non-empty reasons make every branch of the methods run.
Pages == {"http://www.foo.com/"}
Names == {"a"}
Units == {"seconds", "foobgrobbers"}
SampleValues ==
    { [type |-> "int",  repr |-> "3"],
      [type |-> "list", repr |-> "[1, 2, 3]"],
      [type |-> "str",  repr |-> "foo"] }
Reasons == {"", "This is a reason", "Another reason"}
SkipReasons == {"testing reason"}
ArtifactNames == {DIAGNOSTICS_NAME}
Failures ==
    { [kind |-> "basestring", text |-> "message"] }
\* exc_value of Finalize / __exit__: absent (<<>>) or one exception
Exceptions ==
    { [cls |-> "ValueError", args |-> <<"expected error">>] }
ExcValues == {<<>>} \cup { <<e>> : e \in Exceptions }

\* bool(x) of a string-or-None
Truthy(s) == s # None /\ s # ""

\* repr() of an exception instance (Python 2)
Repr(e) ==
    IF e.args = <<>> THEN e.cls \o "()"
    ELSE e.cls \o "('" \o e.args[1] \o "',)"

-----------------------------------------------------------------------------
(* StoryRun: the record of one story's execution *)

\* StoryRun(page, test_prefix, index, intermediate_dir); `id` stands for the
\* identity of the new object
StoryRun(page, index, id) ==
    [ id           |-> id,
      story        |-> page,
      index        |-> index,
      status       |-> "ok",
      failure_str  |-> None,
      skip_reason  |-> None,
      expected     |-> TRUE,
      measurements |-> [n \in Names |-> None],
      artifacts    |-> {},
      finished     |-> FALSE ]

\* the samples StoryRun.AddMeasurement accepts: a number or a list of numbers
IsNumeric(samples) == samples.type \in {"int", "list"}

\* StoryRun.AddMeasurement: the run afterwards (the samples are numeric)
RunAddMeasurement(run, name, unit, samples) ==
    [run EXCEPT !.measurements[name] = unit]

\* StoryRun.SetFailed
RunSetFailed(run, failure_str) ==
    [run EXCEPT !.status = "failed", !.failure_str = failure_str]

\* StoryRun.Skip
RunSkip(run, reason, expected) ==
    [run EXCEPT !.status = "skipped", !.skip_reason = reason,
                !.expected = expected]

\* StoryRun.CreateArtifact
RunCreateArtifact(run, name) ==
    [run EXCEPT !.artifacts = @ \cup {name}]

\* StoryRun.Finish
RunFinish(run) == [run EXCEPT !.finished = TRUE]

\* StoryRun.ok / failed / skipped
RunOk(run)      == run.status = "ok"
RunFailed(run)  == run.status = "failed"
RunSkipped(run) == run.status = "skipped"

-----------------------------------------------------------------------------
(* Outcomes of a method call *)

\* the call returned
Return(self, calls) == [self |-> self, raised |-> None, calls |-> calls]

\* the call was left by an exception; `self` is the object as the call left it
Raise(self, exc, calls) == [self |-> self, raised |-> exc, calls |-> calls]

\* one call on a collaborator; `run` is the id of the StoryRun it is about
\* (0: none) and `status` the status field of a written record ("": none).
\* The progress reporter is handed the ledger itself: `finalized` and
\* `completed` are what it finds there at the time of the call.
ReporterCall(name, run, self) ==
    [obj |-> "progress_reporter", call |-> name, run |-> run, status |-> "",
     finalized |-> self.finalized, completed |-> Len(self.all_story_runs)]
StreamCall(name, run, status) ==
    [obj |-> "results_stream", call |-> name, run |-> run, status |-> status]

-----------------------------------------------------------------------------
(* PageTestResults *)

\* PageTestResults.__init__; with_stream: an intermediate directory is known
NewResults(with_stream) ==
    [ current_story_run |-> <<>>,
      all_story_runs    |-> <<>>,
      measurement_units |-> [n \in Names |-> None],
      interruption      |-> None,
      finalized         |-> FALSE,
      results_stream    |-> IF with_stream THEN "open" ELSE None ]

\* benchmark_interrupted
benchmark_interrupted(self) == Truthy(self.interruption)

num_successful(self) ==
    Cardinality({i \in DOMAIN self.all_story_runs : RunOk(self.all_story_runs[i])})
\* num_failed that also counts the run in progress
num_failed_CountsCurrent(self) ==
    Cardinality({i \in DOMAIN (self.all_story_runs \o self.current_story_run) :
                    RunFailed((self.all_story_runs \o self.current_story_run)[i])})
num_failed(self) ==
    Cardinality({i \in DOMAIN self.all_story_runs : RunFailed(self.all_story_runs[i])})
num_skipped(self) ==
    Cardinality({i \in DOMAIN self.all_story_runs : RunSkipped(self.all_story_runs[i])})
had_successes(self) == \E i \in DOMAIN self.all_story_runs : RunOk(self.all_story_runs[i])
had_failures(self)  == \E i \in DOMAIN self.all_story_runs : RunFailed(self.all_story_runs[i])
had_skips(self)     == \E i \in DOMAIN self.all_story_runs : RunSkipped(self.all_story_runs[i])

\* StoryRun.AsDict, as far as the record's status goes
StatusOfRecord(run) ==
    CASE run.status = "ok"      -> "PASS"
      [] run.status = "failed"  -> "FAIL"
      [] run.status = "skipped" -> "SKIP"

\* _WriteJsonLine for each run of `runs`, in order: the calls on the stream
WriteJsonLines(self, runs) ==
    IF self.results_stream = None THEN <<>>
    ELSE [i \in DOMAIN runs |-> StreamCall("write", runs[i].id, StatusOfRecord(runs[i]))]

\* CreateArtifact
CreateArtifact(self, name) ==
    IF self.current_story_run = <<>> THEN Raise(self, "AssertionError", <<>>)
    ELSE Return([self EXCEPT !.current_story_run =
                     <<RunCreateArtifact(self.current_story_run[1], name)>>], <<>>)

\* WillRunPage that refuses an interrupted benchmark
WillRunPage_RefusesInterrupted(self, page, story_run_index, id) ==
    IF self.finalized \/ Truthy(self.interruption)
    THEN Raise(self, "AssertionError", <<>>)
    ELSE IF self.current_story_run # <<>> THEN Raise(self, "AssertionError", <<>>)
    ELSE LET started == [self EXCEPT !.current_story_run =
                             <<StoryRun(page, story_run_index, id)>>]
         IN  Return([started EXCEPT !.current_story_run =
                         <<RunCreateArtifact(started.current_story_run[1],
                                             DIAGNOSTICS_NAME)>>],
                    <<ReporterCall("WillRunStory", id, started)>>)

\* WillRunPage without the check for a run in progress
WillRunPage_NoRunCheck(self, page, story_run_index, id) ==
    IF self.finalized THEN Raise(self, "AssertionError", <<>>)
    ELSE LET started == [self EXCEPT !.current_story_run =
                             <<StoryRun(page, story_run_index, id)>>]
         IN  Return([started EXCEPT !.current_story_run =
                         <<RunCreateArtifact(started.current_story_run[1],
                                             DIAGNOSTICS_NAME)>>],
                    <<ReporterCall("WillRunStory", id, started)>>)

\* WillRunPage; `id` is the identity of the StoryRun it constructs
WillRunPage(self, page, story_run_index, id) ==
    IF self.finalized THEN Raise(self, "AssertionError", <<>>)
    ELSE IF self.current_story_run # <<>> THEN Raise(self, "AssertionError", <<>>)
    ELSE LET started == [self EXCEPT !.current_story_run =
                             <<StoryRun(page, story_run_index, id)>>]
             written == CreateArtifact(started, DIAGNOSTICS_NAME)
         IN  Return(written.self, <<ReporterCall("WillRunStory", id, written.self)>>)

\* DidRunPage that puts the run at the head of the sequence
DidRunPage_Prepends(self, page) ==
    IF self.current_story_run = <<>> THEN Raise(self, "AssertionError", <<>>)
    ELSE LET run == RunFinish(self.current_story_run[1])
         IN  Return([self EXCEPT !.all_story_runs = <<run>> \o @,
                                 !.current_story_run = <<>>],
                    <<ReporterCall("DidRunStory", run.id, self)>>)

\* DidRunPage that writes the record of the run as soon as it completes
DidRunPage_WritesRecord(self, page) ==
    IF self.current_story_run = <<>> THEN Raise(self, "AssertionError", <<>>)
    ELSE LET run == RunFinish(self.current_story_run[1])
         IN  Return([self EXCEPT !.all_story_runs = Append(@, run),
                                 !.current_story_run = <<>>],
                    <<ReporterCall("DidRunStory", run.id, self)>>
                       \o WriteJsonLines(self, <<run>>))

\* DidRunPage that appends the run before it notifies the reporter
DidRunPage_AppendsFirst(self, page) ==
    IF self.current_story_run = <<>> THEN Raise(self, "AssertionError", <<>>)
    ELSE LET run == RunFinish(self.current_story_run[1])
             appended == [self EXCEPT !.all_story_runs = Append(@, run)]
         IN  Return([appended EXCEPT !.current_story_run = <<>>],
                    <<ReporterCall("DidRunStory", run.id, appended)>>)

\* DidRunPage
DidRunPage(self, page) ==
    IF self.current_story_run = <<>> THEN Raise(self, "AssertionError", <<>>)
    ELSE LET run == RunFinish(self.current_story_run[1])
         IN  Return([self EXCEPT !.all_story_runs = Append(@, run),
                                 !.current_story_run = <<>>],
                    <<ReporterCall("DidRunStory", run.id, self)>>)

\* the last reason wins
InterruptionAfter_LastWins(old, reason) == reason

\* the value InterruptBenchmark stores: `self._interruption or reason`
InterruptionAfter(old, reason) == IF Truthy(old) THEN old ELSE reason

\* InterruptBenchmark without the check for a finalized ledger
InterruptBenchmark_NoFinalizedCheck(self, reason) ==
    IF ~Truthy(reason) THEN Raise(self, "AssertionError", <<>>)
    ELSE Return([self EXCEPT !.interruption = InterruptionAfter(@, reason)], <<>>)

\* InterruptBenchmark
InterruptBenchmark(self, reason) ==
    IF self.finalized THEN Raise(self, "AssertionError", <<>>)
    ELSE IF ~Truthy(reason) THEN Raise(self, "AssertionError", <<>>)
    ELSE Return([self EXCEPT !.interruption = InterruptionAfter(@, reason)], <<>>)

\* AddMeasurement without the comparison with the canonical unit
AddMeasurement_NoUnitCheck(self, name, unit, samples) ==
    IF self.current_story_run = <<>> THEN Raise(self, "AssertionError", <<>>)
    ELSE LET checked == [self EXCEPT !.measurement_units[name] = unit]
         IN  IF ~IsNumeric(samples) THEN Raise(checked, "TypeError", <<>>)
             ELSE Return([checked EXCEPT !.current_story_run =
                              <<RunAddMeasurement(checked.current_story_run[1],
                                                  name, unit, samples)>>], <<>>)

\* AddMeasurement
AddMeasurement(self, name, unit, samples) ==
    IF self.current_story_run = <<>> THEN Raise(self, "AssertionError", <<>>)
    ELSE LET old_unit == self.measurement_units[name]
             checked  == IF old_unit # None THEN self
                         ELSE [self EXCEPT !.measurement_units[name] = unit]
         IN  IF old_unit # None /\ unit # old_unit THEN Raise(self, "ValueError", <<>>)
             ELSE IF ~IsNumeric(samples) THEN Raise(checked, "TypeError", <<>>)
             ELSE Return([checked EXCEPT !.current_story_run =
                              <<RunAddMeasurement(checked.current_story_run[1],
                                                  name, unit, samples)>>], <<>>)

\* the text Fail records for a failure
FailureStr(self, failure) ==
    IF failure.kind = "basestring"
    THEN "Failure recorded for page " \o self.current_story_run[1].story
             \o ": " \o failure.text
    ELSE "Traceback (most recent call last): " \o failure.text

\* Fail
Fail(self, failure) ==
    IF self.current_story_run = <<>> THEN Raise(self, "AssertionError", <<>>)
    ELSE Return([self EXCEPT !.current_story_run =
                     <<RunSetFailed(self.current_story_run[1],
                                    FailureStr(self, failure))>>], <<>>)

\* Skip
Skip(self, reason, expected) ==
    IF self.current_story_run = <<>> THEN Raise(self, "AssertionError", <<>>)
    ELSE Return([self EXCEPT !.current_story_run =
                     <<RunSkip(self.current_story_run[1], reason, expected)>>], <<>>)

\* lines 352-365 without the close of the results stream
FinalizeTail_LeavesOpen(self) ==
    LET marked == [self EXCEPT !.finalized = TRUE]
    IN  Return(marked,
               <<ReporterCall("DidFinishAllStories", 0, marked)>>
                 \o WriteJsonLines(marked, marked.all_story_runs))

\* Finalize from `self.finalized = True` on (lines 352-365)
FinalizeTail(self) ==
    LET marked == [self EXCEPT !.finalized = TRUE]
        closed == IF marked.results_stream = None THEN marked
                  ELSE [marked EXCEPT !.results_stream = "closed"]
    IN  Return(closed,
               <<ReporterCall("DidFinishAllStories", 0, marked)>>
                 \o WriteJsonLines(marked, marked.all_story_runs)
                 \o (IF marked.results_stream = None THEN <<>>
                     ELSE <<StreamCall("close", 0, "")>>))

\* Finalize that completes the run in progress instead of discarding it
Finalize_CompletesRun(self, exc_value) ==
    IF self.finalized THEN Return(self, <<>>)
    ELSE IF exc_value # <<>>
    THEN LET interrupted == InterruptBenchmark(self, Repr(exc_value[1]))
             kept == interrupted.self
         IN  IF interrupted.raised # None THEN interrupted
             ELSE FinalizeTail([kept EXCEPT
                     !.all_story_runs = @ \o kept.current_story_run,
                     !.current_story_run = <<>>])
    ELSE IF self.current_story_run # <<>> THEN Raise(self, "AssertionError", <<>>)
    ELSE FinalizeTail(self)

\* Finalize that marks the ledger finalized before it checks for a run in
\* progress
Finalize_MarksBeforeCheck(self, exc_value) ==
    IF self.finalized THEN Return(self, <<>>)
    ELSE IF exc_value # <<>>
    THEN LET interrupted == InterruptBenchmark(self, Repr(exc_value[1]))
         IN  IF interrupted.raised # None THEN interrupted
             ELSE FinalizeTail([interrupted.self EXCEPT !.current_story_run = <<>>])
    ELSE IF self.current_story_run # <<>>
    THEN Raise([self EXCEPT !.finalized = TRUE], "AssertionError", <<>>)
    ELSE FinalizeTail(self)

\* Finalize without the early return of a finalized ledger
Finalize_NoEarlyReturn(self, exc_value) ==
    IF exc_value # <<>>
    THEN LET interrupted == InterruptBenchmark(self, Repr(exc_value[1]))
         IN  IF interrupted.raised # None THEN interrupted
             ELSE FinalizeTail([interrupted.self EXCEPT !.current_story_run = <<>>])
    ELSE IF self.current_story_run # <<>> THEN Raise(self, "AssertionError", <<>>)
    ELSE FinalizeTail(self)

\* Finalize that discards the run in progress without recording the cause
Finalize_CauseNotRecorded(self, exc_value) ==
    IF self.finalized THEN Return(self, <<>>)
    ELSE IF exc_value # <<>>
    THEN FinalizeTail([self EXCEPT !.current_story_run = <<>>])
    ELSE IF self.current_story_run # <<>> THEN Raise(self, "AssertionError", <<>>)
    ELSE FinalizeTail(self)

\* Finalize; exc_value is <<>> (None) or <<e>>
Finalize(self, exc_value) ==
    IF self.finalized THEN Return(self, <<>>)
    ELSE IF exc_value # <<>>
    THEN LET interrupted == InterruptBenchmark(self, Repr(exc_value[1]))
         IN  IF interrupted.raised # None THEN interrupted
             ELSE FinalizeTail([interrupted.self EXCEPT !.current_story_run = <<>>])
    ELSE IF self.current_story_run # <<>> THEN Raise(self, "AssertionError", <<>>)
    ELSE FinalizeTail(self)

-----------------------------------------------------------------------------
(* DesktopBrowserBackend: the supervisor of one browser process *)

\* the directory tempfile.mkdtemp() gives to __init__
TMP_MINIDUMP_DIR == "/tmp/minidumps"

\* Popen.returncode of a process ended by a signal: minus its number
SignalReturnCodes == [SIGINT |-> -2, SIGKILL |-> -9]

\* return codes of a browser that ends by itself
ExitCodes == {1}

\* names the platform reports (GetOSName)
OSNames == {"linux", "win"}

\* one call made on a collaborator: the platform, the Popen object of
\* process `pid`, the file object `fid`, the modules shutil, cloud_storage,
\* logging, the base class, the symbolizer; `path` is its path argument
BackendCall(name, pid, path) == [call |-> name, pid |-> pid, path |-> path]

\* DesktopBrowserBackend.__init__ for an executable that exists: the object
NewBackend(os_name, cooperative, show_stdout) ==
    [ proc             |-> <<>>,
      tmp_output_file  |-> <<>>,
      dump_finder      |-> FALSE,
      most_recent_symbolized_minidump_paths |-> {},
      tmp_minidump_dir |-> TMP_MINIDUMP_DIR,
      devtools_client  |-> FALSE,
      os_name          |-> os_name,
      cooperative_shutdown_supported |-> cooperative,
      show_stdout      |-> show_stdout ]

\* the host after __init__: no process was spawned (procs[pid] is <<>> while
\* process pid runs and <<returncode>> once it has ended), no output file
\* was created (files[fid] is "open" or "closed"), the minidump directory
\* exists and holds no dump (dumps: the paths of its dumps, oldest first)
NewHost ==
    [ procs |-> <<>>,
      files |-> <<>>,
      dirs  |-> {TMP_MINIDUMP_DIR},
      dumps |-> <<>> ]

\* the progress of a method call: the object and the host so far, the
\* exception that left the call (None: none), the arguments of the
\* exception, the value returned and the calls made on collaborators
Frame(self, host) ==
    [ self |-> self, host |-> host, raised |-> None, args |-> <<>>,
      value |-> <<>>, calls |-> <<>> ]

\* the frame after one more call on a collaborator
Do(st, call) == [st EXCEPT !.calls = Append(@, call)]

\* the frame left by an exception raised after the calls made so far
Throw(st, exc, args) == [st EXCEPT !.raised = exc, !.args = args]

\* Popen.poll() is None
Polls(host, pid) == host.procs[pid] = <<>>

\* IsBrowserRunning
IsBrowserRunning(self, host) ==
    self.proc # <<>> /\ Polls(host, self.proc[1])

\* GetPid
GetPid(self) == self.proc

\* ChromeBrowserBackend.BindDevToolsClient: a client is bound to the browser
BaseBindDevToolsClient(st) == [st EXCEPT !.self.devtools_client = TRUE]

\* BindDevToolsClient that binds without looking at the process
BindDevToolsClient_NoPoll(st) == BaseBindDevToolsClient(st)

\* BindDevToolsClient
BindDevToolsClient(st) ==
    IF ~IsBrowserRunning(st.self, st.host)
    THEN Throw(st, "ProcessGoneException", st.host.procs[st.self.proc[1]])
    ELSE BaseBindDevToolsClient(st)

\* what happens around one Start: whether Popen fails to spawn, and whether
\* the process has ended, with which return code, when it is first polled
StartOutcomes ==
    [ spawn : {"ok", "OSError"}, exited : {<<>>} \cup {<<c>> : c \in ExitCodes} ]

\* lines 151-156: the output file is created unless the browser's output is
\* shown, and the process is spawned with BREAKPAD_DUMP_LOCATION in its
\* environment (line 135).  subprocess.Popen takes an environment of
\* strings only: handed one in which BREAKPAD_DUMP_LOCATION is None it
\* raises TypeError and spawns nothing.
Spawn(st, f) ==
    LET fid  == Len(st.host.files) + 1
        pid  == Len(st.host.procs) + 1
        s1   == IF st.self.show_stdout THEN st
                ELSE [st EXCEPT !.self.tmp_output_file = <<fid>>,
                                !.host.files = Append(@, "open")]
        s2   == Do(s1, BackendCall("Popen", pid, st.self.tmp_minidump_dir))
    IN  IF st.self.tmp_minidump_dir = None THEN Throw(s2, "TypeError", <<>>)
        ELSE IF f.spawn # "ok" THEN Throw(s1, f.spawn, <<>>)
        ELSE [s2 EXCEPT !.self.proc = <<pid>>,
                        !.host.procs = Append(@, f.exited)]

\* Start that spawns without looking for a process handle
Start_NoHandleCheck(self, host, f) ==
    LET s1 == Spawn([Frame(self, host) EXCEPT !.self.dump_finder = TRUE], f)
    IN  IF s1.raised # None THEN s1 ELSE BindDevToolsClient(s1)

\* Start
Start(self, host, f) ==
    IF self.proc # <<>> THEN Throw(Frame(self, host), "AssertionError", <<>>)
    ELSE LET s1 == Spawn([Frame(self, host) EXCEPT !.self.dump_finder = TRUE], f)
         IN  IF s1.raised # None THEN s1 ELSE BindDevToolsClient(s1)

\* what happens around one Close: the call that raises when it is made
\* (the base class's Close, the platform's CooperativelyShutdown,
\* send_signal, kill, the output file's close; "": none does); whether the
\* platform declines the cooperative request (CooperativelyShutdown returns
\* False) or makes it, and the browser then ends within the wait or the wait
\* times out; and whether the browser ends within the wait after SIGINT
CloseOutcomes ==
    [ raises      : {"", "ChromeBrowserBackend.Close", "CooperativelyShutdown",
                     "send_signal", "kill", "close"},
      cooperative : {"declined", "exit", "timeout"},
      sigint      : {"exit", "timeout"} ]

\* process pid ends with the return code
Ends(st, pid, returncode) == [st EXCEPT !.host.procs[pid] = <<returncode>>]

\* ChromeBrowserBackend.Close: the client is closed and forgotten
BaseClose(st, f) ==
    LET s1 == Do(st, BackendCall("ChromeBrowserBackend.Close", 0, ""))
    IN  IF f.raises = "ChromeBrowserBackend.Close" THEN Throw(s1, "Exception", <<>>)
        ELSE [s1 EXCEPT !.self.devtools_client = FALSE]

\* _TryCooperativeShutdown, called with a running browser
TryCooperativeShutdown(st, f) ==
    IF ~st.self.cooperative_shutdown_supported THEN st
    ELSE LET pid == st.self.proc[1]
             s1  == Do(st, BackendCall("CooperativelyShutdown", pid, ""))
         IN  CASE f.raises = "CooperativelyShutdown" -> Throw(s1, "Exception", <<>>)
               [] f.cooperative = "declined" -> s1
               [] f.cooperative = "exit" ->
                     Do(Ends(s1, pid, 0), BackendCall("logging.info", pid, ""))
               [] OTHER -> Do(s1, BackendCall("logging.warning", pid, ""))

\* lines 349-355, entered with a running browser off Windows: SIGINT, and
\* the handle is dropped when the browser ends within the wait
PoliteShutdown(st, f) ==
    LET pid == st.self.proc[1]
        s1  == Do(st, BackendCall("send_signal", pid, ""))
    IN  IF f.raises = "send_signal" THEN Throw(s1, "OSError", <<>>)
        ELSE IF f.sigint = "exit"
             THEN [Ends(s1, pid, SignalReturnCodes.SIGINT) EXCEPT !.self.proc = <<>>]
             ELSE Do(s1, BackendCall("logging.warning", pid, ""))

\* lines 358-360, entered with a running browser
Kill(st, f) ==
    LET pid == st.self.proc[1]
        s1  == Do(Do(st, BackendCall("logging.warning", pid, "")),
                  BackendCall("kill", pid, ""))
    IN  IF f.raises = "kill" THEN Throw(s1, "OSError", <<>>)
        ELSE Ends(s1, pid, SignalReturnCodes.SIGKILL)

\* lines 361-369 without forgetting the minidump directory once removed
ReleaseResources_KeepsDir(st, f) ==
    LET s1 == [st EXCEPT !.self.proc = <<>>]
        s2 == IF s1.self.tmp_output_file = <<>> THEN s1
              ELSE LET fid == s1.self.tmp_output_file[1]
                       c   == Do(s1, BackendCall("close", fid, ""))
                   IN  IF f.raises = "close" THEN Throw(c, "IOError", <<>>)
                       ELSE [c EXCEPT !.host.files[fid] = "closed",
                                      !.self.tmp_output_file = <<>>]
    IN  IF s2.raised # None \/ s2.self.tmp_minidump_dir = None THEN s2
        ELSE [Do(s2, BackendCall("rmtree", 0, s2.self.tmp_minidump_dir))
                 EXCEPT !.host.dirs = @ \ {s2.self.tmp_minidump_dir},
                        !.host.dumps = <<>>]

\* lines 361-369: the handle is dropped, the output file closed and the
\* minidump directory removed with what it holds
ReleaseResources(st, f) ==
    LET s1 == [st EXCEPT !.self.proc = <<>>]
        s2 == IF s1.self.tmp_output_file = <<>> THEN s1
              ELSE LET fid == s1.self.tmp_output_file[1]
                       c   == Do(s1, BackendCall("close", fid, ""))
                   IN  IF f.raises = "close" THEN Throw(c, "IOError", <<>>)
                       ELSE [c EXCEPT !.host.files[fid] = "closed",
                                      !.self.tmp_output_file = <<>>]
    IN  IF s2.raised # None \/ s2.self.tmp_minidump_dir = None THEN s2
        ELSE [Do(s2, BackendCall("rmtree", 0, s2.self.tmp_minidump_dir))
                 EXCEPT !.host.dirs = @ \ {s2.self.tmp_minidump_dir},
                        !.host.dumps = <<>>,
                        !.self.tmp_minidump_dir = None]

\* the body of Close without the SIGINT step
CloseBody_KillFirst(self, host, f) ==
    LET s1 == BaseClose(Frame(self, host), f)
        s2 == IF s1.raised = None /\ IsBrowserRunning(s1.self, s1.host)
              THEN TryCooperativeShutdown(s1, f) ELSE s1
        s4 == IF s2.raised = None /\ IsBrowserRunning(s2.self, s2.host)
              THEN Kill(s2, f) ELSE s2
    IN  IF s4.raised = None THEN ReleaseResources(s4, f) ELSE s4

\* the body of Close: the statements in order, left at the first that raises
CloseBody(self, host, f) ==
    LET s1 == BaseClose(Frame(self, host), f)
        s2 == IF s1.raised = None /\ IsBrowserRunning(s1.self, s1.host)
              THEN TryCooperativeShutdown(s1, f) ELSE s1
        s3 == IF /\ s2.raised = None
                 /\ IsBrowserRunning(s2.self, s2.host)
                 /\ s2.self.os_name # "win"
              THEN PoliteShutdown(s2, f) ELSE s2
        s4 == IF s3.raised = None /\ IsBrowserRunning(s3.self, s3.host)
              THEN Kill(s3, f) ELSE s3
    IN  IF s4.raised = None THEN ReleaseResources(s4, f) ELSE s4

\* exc_util.BestEffort: an exception that leaves the function is logged and
\* not raised again
BestEffort(st) ==
    IF st.raised = None THEN st
    ELSE [Do(st, BackendCall("logging.exception", 0, st.raised))
             EXCEPT !.raised = None, !.args = <<>>]

\* Close without its decorator
Close_Undecorated(self, host, f) == CloseBody(self, host, f)

\* Close
Close(self, host, f) == BestEffort(CloseBody(self, host, f))

\* paths under which the crash handler of the browser writes minidumps, in
\* the order in which it uses them
DumpNames == <<"/tmp/minidumps/a.dmp", "/tmp/minidumps/b.dmp">>
DumpPaths == { DumpNames[i] : i \in DOMAIN DumpNames }

\* what _UploadMinidumpToCloudStorage returns when the upload fails / succeeds
MISSING_LINK == "<Missing link>"
CLOUD_STORAGE_LINK == "https://storage.cloud.google.com/minidump"

FAILED_TO_SYMBOLIZE ==
    "Failed to symbolize minidump. Raw stack is uploaded to cloud storage: %s."
NO_CRASH_DUMP_FOUND == "No crash dump found."

\* what the symbolizer returns for a dump it resolves
STACK == "Thread 0 (crashed)"

\* MinidumpFinder.GetAllMinidumpPaths: the dumps in the directory; a
\* directory that is gone holds none
FinderAllMinidumpPaths(host, dir) ==
    IF dir \in host.dirs THEN { host.dumps[i] : i \in DOMAIN host.dumps } ELSE {}

\* MinidumpFinder.GetMostRecentMinidump: the newest dump in the directory
\* (<<>>: none)
FinderMostRecentMinidump(host, dir) ==
    IF dir \in host.dirs /\ host.dumps # <<>>
    THEN <<host.dumps[Len(host.dumps)]>> ELSE <<>>

\* GetMostRecentMinidumpPath; the finder is made by Start
GetMostRecentMinidumpPath(st) ==
    IF ~st.self.dump_finder THEN Throw(st, "AttributeError", <<>>)
    ELSE [Do(Do(st, BackendCall("GetMostRecentMinidump", 0, st.self.tmp_minidump_dir)),
             BackendCall("logging.info", 0, ""))
            EXCEPT !.value = FinderMostRecentMinidump(st.host, st.self.tmp_minidump_dir)]

\* GetAllMinidumpPaths
GetAllMinidumpPaths(st) ==
    IF ~st.self.dump_finder THEN Throw(st, "AttributeError", <<>>)
    ELSE [Do(Do(st, BackendCall("GetAllMinidumpPaths", 0, st.self.tmp_minidump_dir)),
             BackendCall("logging.info", 0, ""))
            EXCEPT !.value = <<FinderAllMinidumpPaths(st.host, st.self.tmp_minidump_dir)>>]

\* GetAllUnsymbolizedMinidumpPaths that forgets what was symbolized
GetAllUnsymbolizedMinidumpPaths_All(st) == GetAllMinidumpPaths(st)

\* GetAllUnsymbolizedMinidumpPaths
GetAllUnsymbolizedMinidumpPaths(st) ==
    LET s1 == GetAllMinidumpPaths(st)
    IN  IF s1.raised # None THEN s1
        ELSE [s1 EXCEPT !.value =
                <<s1.value[1] \ st.self.most_recent_symbolized_minidump_paths>>]

\* what happens around one symbolization: whether the upload raises
\* CloudStorageError, and the stack the symbolizer returns ("": none)
SymbolizeOutcomes == [ upload : {"ok", "CloudStorageError"}, stack : {"", STACK} ]

\* _UploadMinidumpToCloudStorage that lets CloudStorageError through
UploadMinidumpToCloudStorage_Raises(st, minidump_path, f) ==
    LET s1 == Do(st, BackendCall("cloud_storage.Insert", 0, minidump_path))
    IN  IF f.upload = "ok" THEN [s1 EXCEPT !.value = <<CLOUD_STORAGE_LINK>>]
        ELSE Throw([s1 EXCEPT !.value = <<"">>], "CloudStorageError", <<>>)

\* _UploadMinidumpToCloudStorage: the link, as the value of the frame
UploadMinidumpToCloudStorage(st, minidump_path, f) ==
    LET s1 == Do(st, BackendCall("cloud_storage.Insert", 0, minidump_path))
    IN  IF f.upload = "ok" THEN [s1 EXCEPT !.value = <<CLOUD_STORAGE_LINK>>]
        ELSE [Do(s1, BackendCall("logging.error", 0, minidump_path))
                 EXCEPT !.value = <<MISSING_LINK>>]

\* _GetStackFromMinidump: the symbolizer is given the dump
GetStackFromMinidump(st, minidump, f) ==
    [Do(st, BackendCall("SymbolizeMinidump", 0, minidump)) EXCEPT !.value = <<f.stack>>]

\* _InternalSymbolizeMinidump that records the path whatever the symbolizer
\* returned
InternalSymbolizeMinidump_RecordsAlways(st, minidump_path, f) ==
    LET s1 == UploadMinidumpToCloudStorage(st, minidump_path, f)
        s2 == GetStackFromMinidump(s1, minidump_path, f)
    IN  [s2 EXCEPT !.self.most_recent_symbolized_minidump_paths = @ \cup {minidump_path},
                   !.value = IF s2.value[1] = ""
                             THEN <<FALSE, FAILED_TO_SYMBOLIZE, s1.value[1]>>
                             ELSE <<TRUE, s2.value[1]>>]

\* _InternalSymbolizeMinidump that answers for a path recorded as symbolized
\* without submitting it again
InternalSymbolizeMinidump_SkipsSymbolized(st, minidump_path, f) ==
    LET s1 == UploadMinidumpToCloudStorage(st, minidump_path, f)
        s2 == GetStackFromMinidump(s1, minidump_path, f)
    IN  IF minidump_path \in st.self.most_recent_symbolized_minidump_paths
        THEN [st EXCEPT !.value = <<TRUE, STACK>>]
        ELSE IF s2.value[1] = ""
        THEN [s2 EXCEPT !.value = <<FALSE, FAILED_TO_SYMBOLIZE, s1.value[1]>>]
        ELSE [s2 EXCEPT !.self.most_recent_symbolized_minidump_paths = @ \cup {minidump_path},
                        !.value = <<TRUE, s2.value[1]>>]

\* _InternalSymbolizeMinidump
InternalSymbolizeMinidump(st, minidump_path, f) ==
    LET s1 == UploadMinidumpToCloudStorage(st, minidump_path, f)
        s2 == GetStackFromMinidump(s1, minidump_path, f)
    IN  IF s2.value[1] = ""
        THEN [s2 EXCEPT !.value = <<FALSE, FAILED_TO_SYMBOLIZE, s1.value[1]>>]
        ELSE [s2 EXCEPT !.self.most_recent_symbolized_minidump_paths = @ \cup {minidump_path},
                        !.value = <<TRUE, s2.value[1]>>]

\* SymbolizeMinidump
SymbolizeMinidump(st, minidump_path, f) ==
    InternalSymbolizeMinidump(st, minidump_path, f)

\* GetStackTrace
GetStackTrace(st, f) ==
    LET s1 == GetMostRecentMinidumpPath(st)
    IN  IF s1.raised # None THEN s1
        ELSE IF s1.value = <<>>
             THEN [s1 EXCEPT !.value = <<FALSE, NO_CRASH_DUMP_FOUND>>]
             ELSE InternalSymbolizeMinidump(s1, s1.value[1], f)

\* the DevToolsActivePort file: whether it is there and the characters it
\* holds
DevToolsFile(exists, text) == [exists |-> exists, text |-> text]

\* states in which the browser leaves its DevToolsActivePort file: missing,
\* created and still empty, partly written, written without and with the
\* browser target
DevToolsFiles ==
    { DevToolsFile(FALSE, <<>>),
      DevToolsFile(TRUE, <<>>),
      DevToolsFile(TRUE, <<"\n">>),
      DevToolsFile(TRUE, <<" ", "\n", "4", "2", "\n">>),
      DevToolsFile(TRUE, <<"4", "2">>),
      DevToolsFile(TRUE, <<"4", "2", "\n">>),
      DevToolsFile(TRUE, <<"4", "2", "\n", "/", "b", "\n">>),
      DevToolsFile(TRUE, <<"4", "x", "\n">>) }

Whitespace == {" ", "\t", "\n", "\r"}

DigitValue ==
    [c \in {"0", "1", "2", "3", "4", "5", "6", "7", "8", "9"} |->
        CASE c = "0" -> 0 [] c = "1" -> 1 [] c = "2" -> 2 [] c = "3" -> 3
          [] c = "4" -> 4 [] c = "5" -> 5 [] c = "6" -> 6 [] c = "7" -> 7
          [] c = "8" -> 8 [] c = "9" -> 9]

\* the lines a Python file object yields: each ends after its "\n", the
\* last one at the end of the file
RECURSIVE FileLines(_)
FileLines(text) ==
    IF text = <<>> THEN <<>>
    ELSE LET ends == {i \in DOMAIN text : text[i] = "\n"} \cup {Len(text)}
             n    == CHOOSE i \in ends : \A j \in ends : i <= j
         IN  <<SubSeq(text, 1, n)>> \o FileLines(SubSeq(text, n + 1, Len(text)))

\* str.rstrip()
RECURSIVE RStrip(_)
RStrip(line) ==
    IF line # <<>> /\ line[Len(line)] \in Whitespace
    THEN RStrip(SubSeq(line, 1, Len(line) - 1)) ELSE line

\* str.lstrip()
RECURSIVE LStrip(_)
LStrip(line) ==
    IF line # <<>> /\ line[1] \in Whitespace THEN LStrip(Tail(line)) ELSE line

\* the number written with the decimal digits
RECURSIVE Decimal(_)
Decimal(digits) ==
    IF digits = <<>> THEN 0
    ELSE 10 * Decimal(SubSeq(digits, 1, Len(digits) - 1))
            + DigitValue[digits[Len(digits)]]

\* int(line) for an unsigned literal: <<n>>, or <<>> when it raises ValueError
ParseInt(line) ==
    LET s == RStrip(LStrip(line))
    IN  IF s # <<>> /\ \A i \in DOMAIN s : s[i] \in DOMAIN DigitValue
        THEN <<Decimal(s)>> ELSE <<>>

\* _FindDevToolsPortAndTarget that takes a file without lines as port 0
FindDevToolsPortAndTarget_EmptyIsPort(st, file) ==
    LET lines == IF file.exists /\ Len(file.text) > 0
                 THEN [i \in DOMAIN FileLines(file.text) |-> RStrip(FileLines(file.text)[i])]
                 ELSE <<>>
    IN  IF lines = <<>> THEN [st EXCEPT !.value = <<0, <<>>>>]
        ELSE IF ParseInt(lines[1]) = <<>> THEN Throw(st, "ValueError", <<>>)
        ELSE [st EXCEPT !.value =
                <<ParseInt(lines[1])[1],
                  IF Len(lines) >= 2 THEN <<lines[2]>> ELSE <<>>>>]

\* _FindDevToolsPortAndTarget, reading `file`: the port and the target
\* (<<>>: None)
FindDevToolsPortAndTarget(st, file) ==
    IF ~file.exists THEN Throw(st, "EnvironmentError", <<"DevTools file doest not exist yet">>)
    ELSE LET lines == IF Len(file.text) > 0
                      THEN [i \in DOMAIN FileLines(file.text) |->
                               RStrip(FileLines(file.text)[i])]
                      ELSE <<>>
         IN  IF lines = <<>>
             THEN Throw(st, "EnvironmentError", <<"DevTools file empty">>)
             ELSE IF ParseInt(lines[1]) = <<>> THEN Throw(st, "ValueError", <<>>)
             ELSE [st EXCEPT !.value =
                     <<ParseInt(lines[1])[1],
                       IF Len(lines) >= 2 THEN <<lines[2]>> ELSE <<>>>>]

-----------------------------------------------------------------------------
(* GetRecentMinidumpPathWithTimeout *)

\* what a call is given: the timeout and the oldest modification time it
\* accepts; a timeout of 0 and a time of -1 are what the assertions refuse
WaitInputs == [timeout_s : 0..2, oldest_ts : -1..1]

\* the explanation before the finder gave one (line 271)
NO_EXPLANATION == <<"No explanation returned.">>

\* '\n'.join(lines)
RECURSIVE JoinLines(_)
JoinLines(lines) ==
    IF lines = <<>> THEN ""
    ELSE IF Len(lines) = 1 THEN lines[1]
    ELSE lines[1] \o "\n" \o JoinLines(Tail(lines))

\* MinidumpFinder.GetMostRecentMinidump: the explanation of its search,
\* returned along with the dump
FinderExplanation(host, dir) ==
    IF dir \in host.dirs /\ host.dumps # <<>>
    THEN <<"Found minidumps", "Most recent: " \o host.dumps[Len(host.dumps)]>>
    ELSE <<"No minidump found">>

\* the poll of the finder as a call on a collaborator, with what it returned
FinderPoll(dir, dump_path, explanation) ==
    [call |-> "GetMostRecentMinidump", pid |-> 0, path |-> dir,
     value |-> dump_path, explanation |-> explanation]

\* os.path.getmtime(path); mt: the modification times of the dumps of host
GetMTime(host, mt, path) ==
    mt[CHOOSE i \in DOMAIN host.dumps : host.dumps[i] = path]

\* no call in progress
NoWait ==
    [pc |-> "idle", timeout_s |-> 0, oldest_ts |-> 0, start_time |-> 0,
     explanation |-> <<>>, polls |-> 0, calls |-> <<>>,
     raised |-> None, value |-> <<>>]

\* lines 269-272: the frame of a call made when the clock reads t; pc is
\* "while" before the test of the loop, "poll" in its body, "exit" when the
\* call has returned or raised
GetRecentMinidumpPathWithTimeout(timeout_s, oldest_ts, t) ==
    LET w == [NoWait EXCEPT !.timeout_s = timeout_s, !.oldest_ts = oldest_ts]
    IN  IF ~(timeout_s > 0) \/ ~(oldest_ts >= 0)
        THEN [w EXCEPT !.pc = "exit", !.raised = "AssertionError"]
        ELSE [w EXCEPT !.pc = "while", !.explanation = NO_EXPLANATION,
                       !.start_time = t]

\* lines 282-284: the finally block, run on the way out of the try block
LogExplanation(w) ==
    [w EXCEPT !.pc = "exit",
              !.calls = Append(@, BackendCall("logging.info", 0,
                                              JoinLines(w.explanation)))]

\* lines 274 and 281: the test of the loop when the clock reads t, and the
\* return of None when it fails
WhileTimeRemains(w, t) ==
    IF t - w.start_time < w.timeout_s THEN [w EXCEPT !.pc = "poll"]
    ELSE LogExplanation([w EXCEPT !.value = <<>>])

\* the body of the loop that returns the dump whatever its age
PollDumpFinder_AnyAge(w, self, host, mt) ==
    IF ~self.dump_finder THEN LogExplanation([w EXCEPT !.raised = "AttributeError"])
    ELSE LET dump_path   == FinderMostRecentMinidump(host, self.tmp_minidump_dir)
             explanation == FinderExplanation(host, self.tmp_minidump_dir)
             polled == [w EXCEPT !.explanation = explanation,
                                 !.polls = @ + 1,
                                 !.calls = Append(@, FinderPoll(self.tmp_minidump_dir,
                                                                dump_path, explanation))]
         IN  IF dump_path = <<>> THEN [polled EXCEPT !.pc = "while"]
             ELSE LogExplanation([polled EXCEPT !.value = dump_path])

\* lines 275-280: the body of the loop: one poll of the finder, then
\* `continue` when it found no dump or a dump older than oldest_ts, and the
\* return of the dump otherwise; the finder is made by Start
PollDumpFinder(w, self, host, mt) ==
    IF ~self.dump_finder THEN LogExplanation([w EXCEPT !.raised = "AttributeError"])
    ELSE LET dump_path   == FinderMostRecentMinidump(host, self.tmp_minidump_dir)
             explanation == FinderExplanation(host, self.tmp_minidump_dir)
             polled == [w EXCEPT !.explanation = explanation,
                                 !.polls = @ + 1,
                                 !.calls = Append(@, FinderPoll(self.tmp_minidump_dir,
                                                                dump_path, explanation))]
         IN  IF dump_path = <<>> THEN [polled EXCEPT !.pc = "while"]
             ELSE LET stat == [polled EXCEPT !.calls =
                                  Append(@, BackendCall("getmtime", 0, dump_path[1]))]
                  IN  IF GetMTime(host, mt, dump_path[1]) < w.oldest_ts
                      THEN [stat EXCEPT !.pc = "while"]
                      ELSE LogExplanation([stat EXCEPT !.value = dump_path])

-----------------------------------------------------------------------------
(* The state machine of the ledger *)

Init ==
    /\ \E with_stream \in BOOLEAN : results = NewResults(with_stream)
    /\ io = <<>>
    /\ last = [op |-> "__init__", exc_value |-> <<>>, raised |-> None,
               finalized_before |-> FALSE, running_before |-> FALSE]
    /\ created = 0
    /\ backend = NewBackend("linux", FALSE, FALSE)
    /\ machine = NewHost
    /\ now = 0
    /\ mtimes = <<>>
    /\ wait = NoWait
    /\ blast = [op |-> "__init__", input |-> <<>>, raised |-> None,
                args |-> <<>>, value |-> <<>>, calls |-> <<>>,
                symbolized_before |-> {}]

\* the effect on the state of a call of method `op` with outcome `out`;
\* exc_value is the cause given to Finalize (<<>> for the other methods)
Called(op, exc_value, out) ==
    /\ results' = out.self
    /\ io' = io \o out.calls
    /\ last' = [op |-> op, exc_value |-> exc_value, raised |-> out.raised,
                finalized_before |-> results.finalized,
                running_before |-> results.current_story_run # <<>>]
    /\ UNCHANGED <<backend, machine, blast, now, mtimes, wait>>

CallWillRunPage ==
    /\ created < MaxRuns
    /\ \E page \in Pages :
          LET out == WillRunPage(results, page, 0, created + 1)
          IN  /\ Called("WillRunPage", <<>>, out)
              /\ created' = IF out.raised = None THEN created + 1 ELSE created

CallDidRunPage ==
    /\ \E page \in Pages : Called("DidRunPage", <<>>, DidRunPage(results, page))
    /\ UNCHANGED created

CallInterruptBenchmark ==
    /\ \E reason \in Reasons :
          Called("InterruptBenchmark", <<>>, InterruptBenchmark(results, reason))
    /\ UNCHANGED created

CallAddMeasurement ==
    /\ \E name \in Names, unit \in Units, samples \in SampleValues :
          Called("AddMeasurement", <<>>, AddMeasurement(results, name, unit, samples))
    /\ UNCHANGED created

CallFail ==
    /\ \E failure \in Failures : Called("Fail", <<>>, Fail(results, failure))
    /\ UNCHANGED created

CallSkip ==
    /\ \E reason \in SkipReasons, expected \in {TRUE} :
          Called("Skip", <<>>, Skip(results, reason, expected))
    /\ UNCHANGED created

CallCreateArtifact ==
    /\ \E name \in ArtifactNames :
          Called("CreateArtifact", <<>>, CreateArtifact(results, name))
    /\ UNCHANGED created

CallFinalize ==
    /\ \E exc_value \in ExcValues :
          Called("Finalize", exc_value, Finalize(results, exc_value))
    /\ UNCHANGED created

Next ==
    \/ CallWillRunPage
    \/ CallDidRunPage
    \/ CallInterruptBenchmark
    \/ CallAddMeasurement
    \/ CallFail
    \/ CallSkip
    \/ CallCreateArtifact
    \/ CallFinalize

Spec == Init /\ [][Next]_vars

-----------------------------------------------------------------------------
(* The state machine of the supervisor *)

\* the record of a call of method `op` that ended as frame `out`; input:
\* the file it read or the path it was given (<<>>: neither);
\* symbolized_before: the paths recorded as symbolized when it was called
BackendLast(op, input, out) ==
    [op |-> op, input |-> input, raised |-> out.raised, args |-> out.args,
     value |-> out.value, calls |-> out.calls,
     symbolized_before |-> backend.most_recent_symbolized_minidump_paths]

InitBackend ==
    /\ \E os_name \in OSNames, cooperative \in BOOLEAN, show_stdout \in BOOLEAN :
          backend = NewBackend(os_name, cooperative, show_stdout)
    /\ machine = NewHost
    /\ now = 0
    /\ mtimes = <<>>
    /\ wait = NoWait
    /\ blast = BackendLast("__init__", <<>>, Frame(backend, machine))
    /\ results = NewResults(FALSE)
    /\ io = <<>>
    /\ last = [op |-> "__init__", exc_value |-> <<>>, raised |-> None,
               finalized_before |-> FALSE, running_before |-> FALSE]
    /\ created = 0

\* the effect on the state of a call of method `op` that ended as frame `out`
BackendCalled(op, input, out) ==
    /\ backend' = out.self
    /\ machine' = out.host
    /\ blast' = BackendLast(op, input, out)
    /\ UNCHANGED <<results, io, last, created, now, mtimes, wait>>

\* a step of the host that is not a call on the supervisor; a minidump
\* written by the step has the reading of the clock as modification time
HostStep(op, new_host) ==
    /\ machine' = new_host
    /\ mtimes' = [i \in DOMAIN new_host.dumps |->
                     IF i \in DOMAIN mtimes THEN mtimes[i] ELSE now]
    /\ blast' = BackendLast(op, <<>>, Frame(backend, new_host))
    /\ UNCHANGED <<backend, results, io, last, created, now, wait>>

CallStart ==
    /\ \/ backend.proc # <<>>
       \/ Len(machine.procs) < MaxSpawns /\ Len(machine.files) < MaxSpawns
    /\ \E f \in StartOutcomes : BackendCalled("Start", <<>>, Start(backend, machine, f))

CallClose ==
    \E f \in CloseOutcomes : BackendCalled("Close", <<>>, Close(backend, machine, f))

CallFindDevToolsPortAndTarget ==
    \E file \in DevToolsFiles :
       BackendCalled("_FindDevToolsPortAndTarget", <<file>>,
                     FindDevToolsPortAndTarget(Frame(backend, machine), file))

CallGetAllMinidumpPaths ==
    BackendCalled("GetAllMinidumpPaths", <<>>,
                  GetAllMinidumpPaths(Frame(backend, machine)))

CallGetAllUnsymbolizedMinidumpPaths ==
    BackendCalled("GetAllUnsymbolizedMinidumpPaths", <<>>,
                  GetAllUnsymbolizedMinidumpPaths(Frame(backend, machine)))

CallSymbolizeMinidump ==
    \E minidump_path \in DumpPaths, f \in SymbolizeOutcomes :
       BackendCalled("SymbolizeMinidump", <<minidump_path>>,
                     SymbolizeMinidump(Frame(backend, machine), minidump_path, f))

CallGetStackTrace ==
    \E f \in SymbolizeOutcomes :
       BackendCalled("GetStackTrace", <<>>,
                     GetStackTrace(Frame(backend, machine), f))

\* the browser ends by itself
BrowserExits ==
    \E pid \in DOMAIN machine.procs, returncode \in ExitCodes :
       /\ Polls(machine, pid)
       /\ HostStep("BrowserExits", [machine EXCEPT !.procs[pid] = <<returncode>>])

\* the crash handler of the running browser writes a minidump
BrowserWritesMinidump ==
    \E pid \in DOMAIN machine.procs :
       /\ Polls(machine, pid)
       /\ TMP_MINIDUMP_DIR \in machine.dirs
       /\ Len(machine.dumps) < Len(DumpNames)
       /\ HostStep("BrowserWritesMinidump",
                   [machine EXCEPT !.dumps = Append(@, DumpNames[Len(@) + 1])])

\* the life of the browser process: a supervisor on any platform is
\* started and closed while the browser may end by itself
NextBackend ==
    \/ CallStart
    \/ CallClose
    \/ CallFindDevToolsPortAndTarget
    \/ BrowserExits

SpecBackend == InitBackend /\ [][NextBackend]_vars

\* the collection of crash reports: the supervisor of a browser on Linux
\* with captured output, whose minidumps are listed and symbolized
InitMinidumps ==
    /\ InitBackend
    /\ backend = NewBackend("linux", FALSE, FALSE)

NextMinidumps ==
    \/ CallStart
    \/ CallClose
    \/ BrowserExits
    \/ BrowserWritesMinidump
    \/ CallGetAllMinidumpPaths
    \/ CallGetAllUnsymbolizedMinidumpPaths
    \/ CallSymbolizeMinidump
    \/ CallGetStackTrace

SpecMinidumps == InitMinidumps /\ [][NextMinidumps]_vars

\* the record of a call of GetRecentMinidumpPathWithTimeout that ended as
\* frame w
WaitLast(w) ==
    [op |-> "GetRecentMinidumpPathWithTimeout",
     input |-> <<w.timeout_s, w.oldest_ts>>, raised |-> w.raised,
     args |-> <<>>, value |-> w.value, calls |-> w.calls,
     symbolized_before |-> backend.most_recent_symbolized_minidump_paths]

\* the effect on the state of a step of the call that leaves frame w
WaitStepped(w) ==
    /\ IF w.pc = "exit"
       THEN wait' = NoWait /\ blast' = WaitLast(w)
       ELSE wait' = w /\ UNCHANGED blast
    /\ UNCHANGED <<backend, machine, now, mtimes, results, io, last, created>>

\* the call is made; its deadline is a reading the clock can reach
CallGetRecentMinidumpPathWithTimeout ==
    /\ wait.pc = "idle"
    /\ \E input \in WaitInputs :
          /\ now + input.timeout_s <= MaxTime
          /\ WaitStepped(GetRecentMinidumpPathWithTimeout(
                             input.timeout_s, input.oldest_ts, now))

\* the loop reads the clock and tests its condition; after MaxPolls polls
\* the model follows the call only once its deadline is reached
TestsDeadline ==
    /\ wait.pc = "while"
    /\ wait.polls < MaxPolls \/ now - wait.start_time >= wait.timeout_s
    /\ WaitStepped(WhileTimeRemains(wait, now))

\* the body of the loop runs once
PollsDumpFinder ==
    /\ wait.pc = "poll"
    /\ WaitStepped(PollDumpFinder(wait, backend, machine, mtimes))

\* the clock of the host moves on
Tick ==
    /\ now < MaxTime
    /\ now' = now + 1
    /\ UNCHANGED <<results, io, last, created, backend, machine, blast, mtimes, wait>>

\* the caller of the supervisor is one thread: it starts the browser only
\* when it is not inside GetRecentMinidumpPathWithTimeout
StartWhileNotWaiting == wait.pc = "idle" /\ CallStart

\* the wait for a crash report: the supervisor of a browser on Linux is
\* started and asked to wait for a minidump, while the clock moves on and
\* the browser writes minidumps
InitWait == InitMinidumps

NextWait ==
    \/ StartWhileNotWaiting
    \/ BrowserWritesMinidump
    \/ Tick
    \/ CallGetRecentMinidumpPathWithTimeout
    \/ TestsDeadline
    \/ PollsDumpFinder

\* the clock never stops, and the thread inside the call keeps running
SpecWait ==
    /\ InitWait
    /\ [][NextWait]_vars
    /\ WF_vars(Tick)
    /\ WF_vars(TestsDeadline)
    /\ WF_vars(PollsDumpFinder)

-----------------------------------------------------------------------------
(* Vocabulary of the properties *)

\* s is an initial part of t
IsPrefix(s, t) == Len(s) <= Len(t) /\ \A i \in DOMAIN s : s[i] = t[i]

\* the identities of the runs of a sequence, in order
Ids(runs) == [i \in DOMAIN runs |-> runs[i].id]

\* the elements of a sequence
Range(s) == { s[i] : i \in DOMAIN s }

IsWillRunStory(c) == c.call = "WillRunStory"
IsDidRunStory(c)  == c.call = "DidRunStory"
IsWrite(c)        == c.call = "write"
IsClose(c)        == c.call = "close"
IsDidFinishAllStories(c) == c.call = "DidFinishAllStories"

\* the runs named by the calls of a sequence, in order
RunsOf(calls) == [i \in DOMAIN calls |-> calls[i].run]

\* the runs a successful WillRunPage started / a successful DidRunPage completed
StartedIds   == Range(RunsOf(SelectSeq(io, IsWillRunStory)))
CompletedIds == RunsOf(SelectSeq(io, IsDidRunStory))

\* the ledger outside the progress of the current run
SlotAndSequenceUnchanged ==
    /\ results'.current_story_run = results.current_story_run
    /\ results'.all_story_runs = results.all_story_runs

-----------------------------------------------------------------------------
(* C1 *)

\* C1: WillRunPage called while a story run is in progress fails with a usage
\* error (AssertionError), and so does DidRunPage called while none is in
\* progress; both leave the current-run slot and the completed-run sequence
\* as they were, and the slot never holds more than one run.
C1_UsageErrors ==
    [][ /\ (last'.op = "WillRunPage" /\ results.current_story_run # <<>>)
             => (last'.raised = "AssertionError" /\ SlotAndSequenceUnchanged)
        /\ (last'.op = "DidRunPage" /\ results.current_story_run = <<>>)
             => (last'.raised = "AssertionError" /\ SlotAndSequenceUnchanged)
        /\ Len(results'.current_story_run) <= 1 ]_vars

\* a WillRunPage was refused because a run was in progress, and the run is
\* still the current one
C1_Witness ==
    /\ last.op = "WillRunPage"
    /\ last.raised = "AssertionError"
    /\ last.running_before
    /\ ~results.finalized
    /\ results.current_story_run # <<>>

-----------------------------------------------------------------------------
(* C2 *)

\* C2: the completed-run sequence only grows at its end; its length is the
\* number of DidRunPage calls that succeeded, and its i-th element is the run
\* that the WillRunPage before the i-th successful DidRunPage created.
C2_CompletionOrder ==
    /\ [](/\ Ids(results.all_story_runs) = CompletedIds
          /\ \A i \in DOMAIN io :
                IsDidRunStory(io[i]) =>
                   /\ i > 1
                   /\ \E j \in 1..(i-1) :
                         /\ IsWillRunStory(io[j])
                         /\ io[j].run = io[i].run
                         /\ \A k \in (j+1)..(i-1) : ~IsWillRunStory(io[k])
          /\ \A i \in DOMAIN results.all_story_runs :
                results.all_story_runs[i].finished)
    /\ [][IsPrefix(results.all_story_runs, results'.all_story_runs)]_vars

\* two runs were completed, in the order in which they were started
C2_Witness ==
    /\ Len(results.all_story_runs) = 2
    /\ results.all_story_runs[1].id = 1
    /\ results.all_story_runs[2].id = 2
    /\ last.op = "DidRunPage"
    /\ last.raised = None

-----------------------------------------------------------------------------
(* C3 *)

\* the units under which the runs of the ledger hold a measurement `name`
RecordedUnits(self, name) ==
    { r.measurements[name] :
        r \in Range(self.all_story_runs \o self.current_story_run) } \ {None}

\* C3: while a run is in progress, AddMeasurement(name, unit, samples) raises
\* ValueError and changes nothing when some run of the ledger, the current
\* or an earlier one, holds `name` under another unit; it returns when `name`
\* is held under `unit` and the samples are numeric.  All recorded units of
\* a name agree with its canonical unit, which no step changes or removes
\* once it is set, and a call that raises leaves the current run as it was.
C3_UnitConsistency ==
    /\ [](\A name \in Names :
            /\ RecordedUnits(results, name) \subseteq {results.measurement_units[name]}
            /\ \A unit \in Units, samples \in SampleValues :
                 results.current_story_run # <<>> =>
                    LET out == AddMeasurement(results, name, unit, samples)
                    IN  /\ (RecordedUnits(results, name) \ {unit} # {})
                             => (out.raised = "ValueError" /\ out.self = results)
                        /\ (unit \in RecordedUnits(results, name) /\ IsNumeric(samples))
                             => /\ out.raised = None
                                /\ out.self.current_story_run[1].measurements[name] = unit
                                /\ out.self.measurement_units = results.measurement_units)
    /\ [][ /\ \A name \in Names :
                results.measurement_units[name] # None
                   => results'.measurement_units[name] = results.measurement_units[name]
           /\ (last'.op = "AddMeasurement" /\ last'.raised # None)
                 => SlotAndSequenceUnchanged ]_vars

\* a measurement was refused in one run because an earlier run holds the name
\* under another unit
C3_Witness ==
    /\ last.op = "AddMeasurement"
    /\ last.raised = "ValueError"
    /\ Len(results.all_story_runs) >= 1
    /\ results.all_story_runs[1].measurements["a"] = "seconds"
    /\ results.current_story_run # <<>>
    /\ results.current_story_run[1].measurements["a"] = None

-----------------------------------------------------------------------------
(* C4 *)

\* C4: a Finalize call on a finalized ledger, with or without a cause,
\* returns without error and changes nothing: not the object, and it makes
\* no call on the progress reporter or the results stream.
C4_FinalizeIdempotent ==
    /\ [](results.finalized =>
            \A exc_value \in ExcValues :
               Finalize(results, exc_value) = Return(results, <<>>))
    /\ [][ (last'.op = "Finalize" /\ results.finalized)
              => (last'.raised = None /\ results' = results /\ io' = io) ]_vars

\* Finalize was called on a ledger whose records were already written and
\* whose stream was already closed
C4_Witness ==
    /\ last.op = "Finalize"
    /\ last.finalized_before
    /\ last.raised = None
    /\ results.results_stream = "closed"
    /\ Len(SelectSeq(io, IsWrite)) = 2
    /\ Len(SelectSeq(io, IsClose)) = 1
    /\ Len(SelectSeq(io, IsDidFinishAllStories)) = 1

-----------------------------------------------------------------------------
(* C5 *)

\* C5 as stated: Finalize with a cause, on a ledger that is not finalized,
\* leaves the benchmark interrupted with the description of the cause as the
\* stored reason.
C5_ReasonIsCause ==
    (last.op = "Finalize" /\ last.exc_value # <<>> /\ ~last.finalized_before)
       => /\ benchmark_interrupted(results)
          /\ results.interruption = Repr(last.exc_value[1])

\* C5 amended: Finalize with a cause, on a ledger that is not finalized,
\* returns and leaves the ledger finalized and the benchmark interrupted; the
\* stored reason is the description of the cause when the benchmark was not
\* interrupted before, and the reason stored before otherwise.
C5_ReasonIsFirstInterruption ==
    /\ \A e \in Exceptions :
          ~results.finalized =>
             LET out == Finalize(results, <<e>>)
             IN  /\ out.raised = None
                 /\ out.self.finalized
                 /\ benchmark_interrupted(out.self)
                 /\ out.self.interruption =
                       IF results.interruption = None THEN Repr(e)
                       ELSE results.interruption
    /\ (last.op = "Finalize" /\ last.exc_value # <<>> /\ ~last.finalized_before)
          => /\ last.raised = None
             /\ benchmark_interrupted(results)
             /\ results.interruption \in {Repr(last.exc_value[1])} \cup (Reasons \ {""})

\* Finalize with a cause ended a run in progress and the description of the
\* cause is the stored reason
C5_Witness ==
    /\ last.op = "Finalize"
    /\ last.exc_value # <<>>
    /\ last.raised = None
    /\ ~last.finalized_before
    /\ last.running_before
    /\ results.finalized
    /\ results.interruption = Repr(last.exc_value[1])

-----------------------------------------------------------------------------
(* C6 *)

\* the runs that were started and not completed
UnfinishedIds == StartedIds \ Range(CompletedIds)

\* the runs whose record was written to the results stream
WrittenIds == RunsOf(SelectSeq(io, IsWrite))

\* C6: Finalize with a cause, called while a story run is in progress,
\* discards that run: the slot is empty afterwards, the completed-run
\* sequence and the aggregates are as before, and no record is written for
\* the run; in a finalized ledger no unfinished run is current, completed,
\* counted or written.
C6_UnfinishedRunDiscarded ==
    /\ \A e \in Exceptions :
          (~results.finalized /\ results.current_story_run # <<>>) =>
             LET out == Finalize(results, <<e>>)
                 id  == results.current_story_run[1].id
             IN  /\ out.raised = None
                 /\ out.self.current_story_run = <<>>
                 /\ out.self.all_story_runs = results.all_story_runs
                 /\ id \notin Range(Ids(out.self.all_story_runs))
                 /\ id \notin Range(RunsOf(out.calls))
                 /\ num_successful(out.self) = num_successful(results)
                 /\ num_failed(out.self) = num_failed(results)
                 /\ num_skipped(out.self) = num_skipped(results)
    /\ results.finalized =>
          /\ results.current_story_run = <<>>
          /\ \A id \in UnfinishedIds :
                /\ id \notin Range(Ids(results.all_story_runs))
                /\ id \notin Range(WrittenIds)
          /\ num_successful(results) + num_failed(results) + num_skipped(results)
                = Len(CompletedIds)

\* Finalize with a cause ended a run in progress, after another run had been
\* completed; the records were written and the stream closed
C6_Witness ==
    /\ last.op = "Finalize"
    /\ last.exc_value # <<>>
    /\ last.running_before
    /\ ~last.finalized_before
    /\ results.finalized
    /\ UnfinishedIds = {2}
    /\ WrittenIds = <<1>>
    /\ results.results_stream = "closed"

-----------------------------------------------------------------------------
(* C7 *)

\* C7: the interruption reason starts as None; InterruptBenchmark(reason)
\* raises and changes nothing on a finalized ledger or with an empty reason,
\* and otherwise stores the reason if none is stored and changes nothing
\* else; once a reason is stored no step changes or clears it.
C7_InterruptionSetOnce ==
    /\ [](/\ last.op = "__init__" => results.interruption = None
          /\ \A reason \in Reasons :
                LET out == InterruptBenchmark(results, reason)
                IN  IF results.finalized \/ reason = ""
                    THEN out = Raise(results, "AssertionError", <<>>)
                    ELSE /\ out.raised = None
                         /\ out.self.interruption =
                               IF results.interruption = None THEN reason
                               ELSE results.interruption
                         /\ [out.self EXCEPT !.interruption = results.interruption]
                               = results)
    /\ [][ /\ results.interruption # None
                => results'.interruption = results.interruption
           /\ (last'.op = "InterruptBenchmark" /\ last'.raised # None)
                => results' = results
           /\ results'.interruption # results.interruption
                => (last'.op \in {"InterruptBenchmark", "Finalize"}
                    /\ last'.raised = None) ]_vars

\* a benchmark interrupted for one reason was finalized with a cause, and the
\* first reason is the one stored
C7_Witness ==
    /\ last.op = "Finalize"
    /\ last.exc_value # <<>>
    /\ ~last.finalized_before
    /\ last.raised = None
    /\ results.interruption = "This is a reason"

-----------------------------------------------------------------------------
(* C8 *)

\* C8 as stated: in a ledger whose interruption reason is set, WillRunPage
\* does not succeed.
C8_InterruptedStartsNoRun ==
    (last.op = "WillRunPage" /\ benchmark_interrupted(results))
       => last.raised # None

\* C8 amended: in a ledger whose interruption reason is set, WillRunPage
\* fails exactly when the ledger is finalized or a story run is in progress;
\* otherwise it succeeds, its new StoryRun becomes the current run and the
\* interruption reason stays as it was.
C8_InterruptedStartsRunsUntilFinalized ==
    /\ \A page \in Pages :
          benchmark_interrupted(results) =>
             LET out == WillRunPage(results, page, 0, created + 1)
             IN  IF results.finalized \/ results.current_story_run # <<>>
                 THEN out = Raise(results, "AssertionError", <<>>)
                 ELSE /\ out.raised = None
                      /\ Len(out.self.current_story_run) = 1
                      /\ out.self.current_story_run[1].id = created + 1
                      /\ out.self.interruption = results.interruption
    /\ (last.op = "WillRunPage" /\ benchmark_interrupted(results))
          => (last.raised = None
                <=> (~last.finalized_before /\ ~last.running_before))

\* a story run was started in an interrupted benchmark
C8_Witness ==
    /\ last.op = "WillRunPage"
    /\ last.raised = None
    /\ benchmark_interrupted(results)
    /\ ~results.finalized
    /\ results.current_story_run # <<>>

-----------------------------------------------------------------------------
(* C9 *)

\* C9: the finalized flag is never reset; a finalized ledger has no current
\* run; on a finalized ledger WillRunPage, DidRunPage, AddMeasurement, Fail,
\* Skip, CreateArtifact and InterruptBenchmark raise and change nothing, and
\* no step changes the completed-run sequence, the unit map or the
\* interruption reason.
C9_FinalizedIsFrozen ==
    /\ [](results.finalized =>
            /\ results.current_story_run = <<>>
            /\ \A page \in Pages :
                  /\ WillRunPage(results, page, 0, created + 1)
                        = Raise(results, "AssertionError", <<>>)
                  /\ DidRunPage(results, page) = Raise(results, "AssertionError", <<>>)
            /\ \A name \in Names, unit \in Units, samples \in SampleValues :
                  AddMeasurement(results, name, unit, samples)
                     = Raise(results, "AssertionError", <<>>)
            /\ \A failure \in Failures :
                  Fail(results, failure) = Raise(results, "AssertionError", <<>>)
            /\ \A reason \in SkipReasons, expected \in BOOLEAN :
                  Skip(results, reason, expected) = Raise(results, "AssertionError", <<>>)
            /\ \A name \in ArtifactNames \cup {"log.txt"} :
                  CreateArtifact(results, name) = Raise(results, "AssertionError", <<>>)
            /\ \A reason \in Reasons :
                  InterruptBenchmark(results, reason)
                     = Raise(results, "AssertionError", <<>>))
    /\ [][ results.finalized =>
              /\ results'.finalized
              /\ results'.all_story_runs = results.all_story_runs
              /\ results'.measurement_units = results.measurement_units
              /\ results'.interruption = results.interruption
              /\ last'.op # "Finalize" => last'.raised = "AssertionError" ]_vars

\* a measurement was refused by a finalized ledger that holds two runs
C9_Witness ==
    /\ results.finalized
    /\ last.finalized_before
    /\ last.op = "AddMeasurement"
    /\ last.raised = "AssertionError"
    /\ Len(results.all_story_runs) = 2

-----------------------------------------------------------------------------
(* C10 *)

\* C10: Finalize without a cause, called while a story run is in progress,
\* raises a usage error (AssertionError) and changes nothing: the ledger is
\* not finalized, the run is still current, and no call is made on the
\* progress reporter or the results stream; DidRunPage and then Finalize
\* succeed from there, and write the record of that run too.
C10_FinalizeWhileRunning ==
    /\ [](results.current_story_run # <<>> =>
            LET out == Finalize(results, <<>>)
            IN  /\ out = Raise(results, "AssertionError", <<>>)
                /\ ~out.self.finalized
                /\ \A page \in Pages :
                      LET did == DidRunPage(out.self, page)
                          fin == Finalize(did.self, <<>>)
                      IN  /\ did.raised = None
                          /\ fin.raised = None
                          /\ fin.self.finalized
                          /\ results.results_stream # None =>
                                /\ RunsOf(SelectSeq(fin.calls, IsWrite))
                                      = Ids(results.all_story_runs)
                                           \o <<results.current_story_run[1].id>>
                                /\ fin.self.results_stream = "closed")
    /\ [][ (/\ last'.op = "Finalize" /\ last'.exc_value = <<>>
            /\ results.current_story_run # <<>>)
              => (/\ last'.raised = "AssertionError"
                  /\ results' = results
                  /\ io' = io) ]_vars

\* Finalize without a cause was refused while a run was in progress: the
\* run is current, the stream open and the reporter has no final counts
C10_Witness ==
    /\ last.op = "Finalize"
    /\ last.exc_value = <<>>
    /\ last.raised = "AssertionError"
    /\ last.running_before
    /\ ~results.finalized
    /\ results.current_story_run # <<>>
    /\ results.results_stream = "open"
    /\ SelectSeq(io, IsDidFinishAllStories) = <<>>

-----------------------------------------------------------------------------
(* C11 *)

\* the records written to the results stream, in order
Written == SelectSeq(io, IsWrite)

\* C11: no record is written before the ledger is finalized, and no call
\* other than the Finalize that finalizes the ledger writes one (WillRunPage
\* and DidRunPage write nothing); once a ledger with a results stream is
\* finalized, the stream holds exactly one record per completed run, in
\* completion order and with the status of the run, so that the number of
\* records is the length of the completed-run sequence.
C11_SerializationDeferred ==
    /\ [](/\ ~results.finalized => Written = <<>>
          /\ (results.finalized /\ results.results_stream # None) =>
                /\ Len(Written) = Len(results.all_story_runs)
                /\ WrittenIds = Ids(results.all_story_runs)
                /\ \A i \in DOMAIN Written :
                      Written[i].status = StatusOfRecord(results.all_story_runs[i]))
    /\ [][ (last'.op # "Finalize" \/ results.finalized \/ ~results'.finalized)
              => SelectSeq(io', IsWrite) = Written ]_vars

\* the Finalize that finalized the ledger wrote the records of two completed
\* runs of different status, in the order in which the runs completed
C11_Witness ==
    /\ last.op = "Finalize"
    /\ ~last.finalized_before
    /\ results.finalized
    /\ results.results_stream = "closed"
    /\ Len(results.all_story_runs) = 2
    /\ WrittenIds = <<1, 2>>
    /\ Written[1].status = "FAIL"
    /\ Written[2].status = "PASS"

-----------------------------------------------------------------------------
(* C12 *)

\* Fail / Skip was called on the run
FailCalled(run) == run.failure_str # None
SkipCalled(run) == run.skip_reason # None

\* the completed runs on which only Fail, only Skip, neither was called
OnlyFailCalled(run) == FailCalled(run) /\ ~SkipCalled(run)
OnlySkipCalled(run) == SkipCalled(run) /\ ~FailCalled(run)
NeitherCalled(run)  == ~FailCalled(run) /\ ~SkipCalled(run)

\* the numbers of completed runs of the ledger on which the calls were made
NumFailCalled == Cardinality({r \in DOMAIN results.all_story_runs :
                                FailCalled(results.all_story_runs[r])})
NumSkipCalled == Cardinality({r \in DOMAIN results.all_story_runs :
                                SkipCalled(results.all_story_runs[r])})
NumOnlyFailCalled == Cardinality({r \in DOMAIN results.all_story_runs :
                                    OnlyFailCalled(results.all_story_runs[r])})
NumOnlySkipCalled == Cardinality({r \in DOMAIN results.all_story_runs :
                                    OnlySkipCalled(results.all_story_runs[r])})
NumNeitherCalled == Cardinality({r \in DOMAIN results.all_story_runs :
                                   NeitherCalled(results.all_story_runs[r])})

\* the six aggregates of a ledger
Aggregates(self) ==
    <<num_successful(self), num_failed(self), num_skipped(self),
      had_successes(self), had_failures(self), had_skips(self)>>

\* C12 as stated: num_failed, num_successful and num_skipped are the numbers
\* of completed runs on which Fail was called, on which neither Fail nor Skip
\* was called, and on which Skip was called.
C12_CountsByCalls ==
    /\ num_failed(results) = NumFailCalled
    /\ num_successful(results) = NumNeitherCalled
    /\ num_skipped(results) = NumSkipCalled

\* C12 amended: the aggregates depend on the completed-run sequence only;
\* num_successful is the number of completed runs on which neither Fail nor
\* Skip was called; a completed run on which only Fail (only Skip) was called
\* is counted by num_failed (num_skipped), and one on which both were called
\* is counted once, by num_failed or by num_skipped; each had_* flag holds
\* iff its count is positive; only a DidRunPage that returns changes an
\* aggregate, so a Fail or Skip on the run in progress changes none.
C12_CountsByStatus ==
    /\ [](/\ Aggregates(results) =
                Aggregates([NewResults(FALSE) EXCEPT
                              !.all_story_runs = results.all_story_runs])
          /\ num_successful(results) = NumNeitherCalled
          /\ NumOnlyFailCalled <= num_failed(results)
          /\ num_failed(results) <= NumFailCalled
          /\ NumOnlySkipCalled <= num_skipped(results)
          /\ num_skipped(results) <= NumSkipCalled
          /\ num_successful(results) + num_failed(results) + num_skipped(results)
                = Len(results.all_story_runs)
          /\ had_successes(results) <=> num_successful(results) > 0
          /\ had_failures(results) <=> num_failed(results) > 0
          /\ had_skips(results) <=> num_skipped(results) > 0)
    /\ [][ (last'.op # "DidRunPage" \/ last'.raised # None)
              => Aggregates(results') = Aggregates(results) ]_vars

\* Fail was just called on the run in progress, after a failed run and
\* before its own completion: one failure is counted
C12_Witness ==
    /\ last.op = "Fail"
    /\ last.raised = None
    /\ results.current_story_run # <<>>
    /\ RunFailed(results.current_story_run[1])
    /\ Len(results.all_story_runs) = 1
    /\ OnlyFailCalled(results.all_story_runs[1])
    /\ Aggregates(results) = <<0, 1, 0, FALSE, TRUE, FALSE>>

-----------------------------------------------------------------------------
(* Vocabulary of the properties of the supervisor *)

\* the names of the calls of a sequence
CallNames(calls) == { calls[i].call : i \in DOMAIN calls }

\* the calls by which Close ends the browser and releases what it holds
ShutdownCalls == {"CooperativelyShutdown", "send_signal", "kill", "close", "rmtree"}

\* the processes that are running
Running == { pid \in DOMAIN machine.procs : Polls(machine, pid) }

\* the last step was a Close whose body ran to its end
CloseRanToCompletion ==
    blast.op = "Close" /\ "logging.exception" \notin CallNames(blast.calls)

-----------------------------------------------------------------------------
(* C13 *)

\* C13: when a Close has run to completion the supervisor holds no process
\* handle, no output file and no minidump directory, and a Close called in
\* that state requests no shutdown, sends no signal, kills nothing, closes
\* no file and removes no directory, raises nothing and leaves the
\* supervisor and the host unchanged.
C13_CloseIdempotent ==
    /\ [](CloseRanToCompletion =>
            /\ backend.proc = <<>>
            /\ backend.tmp_output_file = <<>>
            /\ backend.tmp_minidump_dir = None
            /\ \A f \in CloseOutcomes :
                  LET out == Close(backend, machine, f)
                  IN  /\ out.raised = None
                      /\ out.self = backend
                      /\ out.host = machine
                      /\ CallNames(out.calls) \cap ShutdownCalls = {})
    /\ [][ (CloseRanToCompletion /\ blast'.op = "Close")
              => /\ blast'.raised = None
                 /\ backend' = backend
                 /\ machine' = machine
                 /\ CallNames(blast'.calls) \cap ShutdownCalls = {} ]_vars

\* a Close of a supervisor that an earlier Close left without minidump
\* directory, after killing its browser and closing its output file, called
\* nothing but the base class
C13_Witness ==
    /\ blast.op = "Close"
    /\ blast.calls = <<BackendCall("ChromeBrowserBackend.Close", 0, "")>>
    /\ backend.tmp_minidump_dir = None
    /\ backend.proc = <<>>
    /\ Len(machine.procs) = 1
    /\ machine.procs[1] = <<SignalReturnCodes.SIGKILL>>
    /\ machine.files = <<"closed">>
    /\ machine.dirs = {}

-----------------------------------------------------------------------------
(* C14 *)

-----------------------------------------------------------------------------
(* C15 *)

\* C15: when Close has returned, the browser is not running, the supervisor
\* holds no process handle, the output file is closed and released, and the
\* minidump directory is removed.
C15_CloseLeavesNothing ==
    blast.op = "Close" =>
       /\ Running = {}
       /\ backend.proc = <<>>
       /\ ~IsBrowserRunning(backend, machine)
       /\ backend.tmp_output_file = <<>>
       /\ \A fid \in DOMAIN machine.files : machine.files[fid] = "closed"
       /\ backend.tmp_minidump_dir = None
       /\ TMP_MINIDUMP_DIR \notin machine.dirs

-----------------------------------------------------------------------------
(* C16 *)

\* C16: the supervisor holds at most one process handle, at most one of the
\* processes it spawned is running, and that one is the process of its
\* handle; a Start called while it holds a handle raises AssertionError
\* without spawning anything: it calls nothing and changes neither the
\* supervisor nor the host.
C16_OneHandle ==
    /\ [](/\ Len(backend.proc) <= 1
          /\ Cardinality(Running) <= 1
          /\ \A pid \in Running : backend.proc = <<pid>>
          /\ backend.proc # <<>> =>
                \A f \in StartOutcomes :
                   LET out == Start(backend, machine, f)
                   IN  /\ out.raised = "AssertionError"
                       /\ out.calls = <<>>
                       /\ out.self = backend
                       /\ out.host = machine)
    /\ [][ (blast'.op = "Start" /\ backend.proc # <<>>)
              => /\ blast'.raised = "AssertionError"
                 /\ blast'.calls = <<>>
                 /\ backend' = backend
                 /\ machine' = machine ]_vars

\* a Start was refused while the browser of the first Start was running
C16_Witness ==
    /\ blast.op = "Start"
    /\ blast.raised = "AssertionError"
    /\ backend.proc = <<1>>
    /\ Running = {1}
    /\ Len(machine.procs) = 1

-----------------------------------------------------------------------------
(* C17 *)

\* C17: a Start that spawns a process which has ended when it is polled
\* raises ProcessGoneException with the return code of the process, and
\* binds no DevTools client.
C17_ProcessGone ==
    /\ [](backend.proc = <<>> =>
            \A f \in StartOutcomes :
               LET out == Start(backend, machine, f)
               IN  (out.self.proc # <<>> /\ f.exited # <<>>) =>
                      /\ out.raised = "ProcessGoneException"
                      /\ out.args = f.exited
                      /\ ~out.self.devtools_client)
    /\ [][ (blast'.op = "Start" /\ backend'.proc # <<>> /\ backend.proc = <<>>)
              => IF Polls(machine', backend'.proc[1])
                 THEN blast'.raised = None /\ backend'.devtools_client
                 ELSE /\ blast'.raised = "ProcessGoneException"
                      /\ blast'.args = machine'.procs[backend'.proc[1]]
                      /\ ~backend'.devtools_client ]_vars

\* the browser of a Start had ended with return code 1 when it was polled
C17_Witness ==
    /\ blast.op = "Start"
    /\ blast.raised = "ProcessGoneException"
    /\ blast.args = <<1>>
    /\ backend.proc # <<>>
    /\ machine.procs[backend.proc[1]] = <<1>>
    /\ ~backend.devtools_client

-----------------------------------------------------------------------------
(* C18 *)

\* C18: reading a DevToolsActivePort file that is missing or holds no byte
\* raises EnvironmentError, the condition on which the caller retries, and
\* returns no port.
C18_NotReady ==
    /\ [](\A file \in DevToolsFiles :
            (~file.exists \/ Len(file.text) = 0) =>
               LET out == FindDevToolsPortAndTarget(Frame(backend, machine), file)
               IN  out.raised = "EnvironmentError" /\ out.value = <<>>)
    /\ []((/\ blast.op = "_FindDevToolsPortAndTarget"
           /\ (~blast.input[1].exists \/ Len(blast.input[1].text) = 0))
             => (blast.raised = "EnvironmentError" /\ blast.value = <<>>))

\* a file that is there and empty was read
C18_Witness ==
    /\ blast.op = "_FindDevToolsPortAndTarget"
    /\ blast.input = <<DevToolsFile(TRUE, <<>>)>>
    /\ blast.raised = "EnvironmentError"
    /\ blast.args = <<"DevTools file empty">>

-----------------------------------------------------------------------------
(* C19 *)

\* the last step was a SymbolizeMinidump or GetStackTrace call
IsSymbolization(b) == b.op \in {"SymbolizeMinidump", "GetStackTrace"}

\* the paths given to `name` by the calls of a sequence, in order
PathsGivenTo(name, calls) ==
    LET given == SelectSeq(calls, LAMBDA c : c.call = name)
    IN  [i \in DOMAIN given |-> given[i].path]

\* the paths uploaded / given to the symbolizer by the calls of a sequence
Uploaded(calls) == PathsGivenTo("cloud_storage.Insert", calls)
Resolved(calls) == PathsGivenTo("SymbolizeMinidump", calls)

\* the path for which the call recorded in b returned (True, stack)
SymbolizedBy(b) ==
    IF IsSymbolization(b) /\ b.raised = None /\ b.value[1] = TRUE
    THEN Range(Resolved(b.calls)) ELSE {}

\* C19: no path is recorded as symbolized at first, and a step adds to the
\* recorded paths exactly the path for which a SymbolizeMinidump or
\* GetStackTrace call returned success, so that the recorded paths are those
\* symbolized successfully so far; GetAllUnsymbolizedMinidumpPaths returns
\* the paths GetAllMinidumpPaths returns without the recorded ones (and
\* raises when GetAllMinidumpPaths raises), so that a path is never listed
\* after its first success.
C19_UnsymbolizedDumps ==
    /\ blast.op = "__init__" => backend.most_recent_symbolized_minidump_paths = {}
    /\ [](LET all == GetAllMinidumpPaths(Frame(backend, machine))
              out == GetAllUnsymbolizedMinidumpPaths(Frame(backend, machine))
          IN  /\ out.raised = all.raised
              /\ out.self = backend
              /\ out.raised = None =>
                    out.value[1] = all.value[1]
                       \ backend.most_recent_symbolized_minidump_paths)
    /\ []((blast.op = "GetAllUnsymbolizedMinidumpPaths" /\ blast.raised = None) =>
            blast.value[1] =
               FinderAllMinidumpPaths(machine, backend.tmp_minidump_dir)
                  \ backend.most_recent_symbolized_minidump_paths)
    /\ [][ backend'.most_recent_symbolized_minidump_paths =
              backend.most_recent_symbolized_minidump_paths \cup SymbolizedBy(blast') ]_vars

\* of the two dumps the finder reports, the one symbolized successfully is
\* not listed
C19_Witness ==
    /\ blast.op = "GetAllUnsymbolizedMinidumpPaths"
    /\ blast.raised = None
    /\ FinderAllMinidumpPaths(machine, backend.tmp_minidump_dir) = DumpPaths
    /\ backend.most_recent_symbolized_minidump_paths = {DumpNames[1]}
    /\ blast.value = <<{DumpNames[2]}>>

-----------------------------------------------------------------------------
(* C20 *)

\* C20 as stated: a SymbolizeMinidump or GetStackTrace call neither uploads
\* nor gives to the symbolizer a path that an earlier call symbolized
\* successfully.
C20_NeverResubmitted ==
    IsSymbolization(blast) =>
       (Range(Uploaded(blast.calls)) \cup Range(Resolved(blast.calls)))
          \cap blast.symbolized_before = {}

\* C20 amended: a path symbolized successfully stays recorded and is not
\* listed by GetAllUnsymbolizedMinidumpPaths again, while SymbolizeMinidump
\* and GetStackTrace do not look at the record: SymbolizeMinidump(p) uploads
\* p once and then gives p to the symbolizer once, and so does a
\* GetStackTrace that finds p as the most recent dump, whether or not p was
\* symbolized successfully before.
C20_ResubmittedWhenAsked ==
    /\ [](\A p \in DumpPaths, f \in SymbolizeOutcomes :
            LET out == SymbolizeMinidump(Frame(backend, machine), p, f)
            IN  /\ out.raised = None
                /\ Uploaded(out.calls) = <<p>>
                /\ Resolved(out.calls) = <<p>>)
    /\ []((blast.op = "SymbolizeMinidump" /\ blast.raised = None) =>
            /\ Uploaded(blast.calls) = blast.input
            /\ Resolved(blast.calls) = blast.input)
    /\ []((blast.op = "GetStackTrace" /\ blast.raised = None) =>
            \/ /\ blast.value = <<FALSE, NO_CRASH_DUMP_FOUND>>
               /\ Uploaded(blast.calls) = <<>>
               /\ Resolved(blast.calls) = <<>>
            \/ /\ Len(Uploaded(blast.calls)) = 1
               /\ Resolved(blast.calls) = Uploaded(blast.calls))
    /\ [](LET out == GetAllUnsymbolizedMinidumpPaths(Frame(backend, machine))
          IN  out.raised = None =>
                 out.value[1] \cap backend.most_recent_symbolized_minidump_paths = {})
    /\ [][ backend.most_recent_symbolized_minidump_paths
              \subseteq backend'.most_recent_symbolized_minidump_paths ]_vars

\* a path that was recorded as symbolized was given to SymbolizeMinidump,
\* uploaded and symbolized again
C20_Witness ==
    /\ blast.op = "SymbolizeMinidump"
    /\ blast.input = <<DumpNames[1]>>
    /\ DumpNames[1] \in blast.symbolized_before
    /\ Uploaded(blast.calls) = <<DumpNames[1]>>
    /\ Resolved(blast.calls) = <<DumpNames[1]>>
    /\ blast.value = <<TRUE, STACK>>

-----------------------------------------------------------------------------
(* C21 *)

\* C21: a SymbolizeMinidump call for which the symbolizer returns nothing
\* returns (False, failure message with the link) and leaves the recorded
\* paths as they were, so that the path is listed as before; a later
\* SymbolizeMinidump of the same path gives it to the symbolizer again and,
\* when the symbolizer finds a stack, returns (True, stack) and records it.
C21_FailureNotMemoized ==
    /\ [](\A p \in DumpPaths, f \in SymbolizeOutcomes :
            f.stack = "" =>
               LET out == SymbolizeMinidump(Frame(backend, machine), p, f)
                   link == IF f.upload = "ok" THEN CLOUD_STORAGE_LINK ELSE MISSING_LINK
               IN  /\ out.raised = None
                   /\ out.value = <<FALSE, FAILED_TO_SYMBOLIZE, link>>
                   /\ out.self = backend
                   /\ GetAllUnsymbolizedMinidumpPaths(Frame(out.self, out.host)).value
                        = GetAllUnsymbolizedMinidumpPaths(Frame(backend, machine)).value
                   /\ \A g \in SymbolizeOutcomes :
                        LET again == SymbolizeMinidump(Frame(out.self, out.host), p, g)
                        IN  /\ Resolved(again.calls) = <<p>>
                            /\ g.stack = STACK =>
                                 /\ again.value = <<TRUE, STACK>>
                                 /\ p \in again.self.most_recent_symbolized_minidump_paths)
    /\ []((IsSymbolization(blast) /\ blast.raised = None /\ blast.value[1] = FALSE)
            => backend.most_recent_symbolized_minidump_paths = blast.symbolized_before)

\* the symbolization of a dump that the finder reports failed, and the dump
\* is neither recorded nor missing from the list of unsymbolized dumps
C21_Witness ==
    /\ blast.op = "SymbolizeMinidump"
    /\ blast.input = <<DumpNames[1]>>
    /\ blast.value = <<FALSE, FAILED_TO_SYMBOLIZE, CLOUD_STORAGE_LINK>>
    /\ backend.most_recent_symbolized_minidump_paths = {}
    /\ LET out == GetAllUnsymbolizedMinidumpPaths(Frame(backend, machine))
       IN  out.raised = None /\ DumpNames[1] \in out.value[1]

-----------------------------------------------------------------------------
(* C24 *)

\* C24: every SymbolizeMinidump call uploads the dump exactly once, as its
\* first call, and gives it to the symbolizer exactly once, as its last
\* call, whether the upload succeeded or raised CloudStorageError; after a
\* failed upload the call does not raise: the failure message carries the
\* placeholder link when the symbolizer returns nothing, and the call
\* returns (True, stack) and records the path when it returns a stack.
C24_UploadThenSymbolize ==
    /\ [](\A p \in DumpPaths, f \in SymbolizeOutcomes :
            LET out == SymbolizeMinidump(Frame(backend, machine), p, f)
            IN  /\ out.raised = None
                /\ Uploaded(out.calls) = <<p>>
                /\ Resolved(out.calls) = <<p>>
                /\ out.calls[1] = BackendCall("cloud_storage.Insert", 0, p)
                /\ out.calls[Len(out.calls)] = BackendCall("SymbolizeMinidump", 0, p)
                /\ f.upload # "ok" =>
                     IF f.stack = ""
                     THEN out.value = <<FALSE, FAILED_TO_SYMBOLIZE, MISSING_LINK>>
                     ELSE /\ out.value = <<TRUE, f.stack>>
                          /\ p \in out.self.most_recent_symbolized_minidump_paths)
    /\ [](blast.op = "SymbolizeMinidump" =>
            /\ blast.raised = None
            /\ Uploaded(blast.calls) = blast.input
            /\ Resolved(blast.calls) = blast.input
            /\ blast.calls[1].call = "cloud_storage.Insert"
            /\ blast.calls[Len(blast.calls)].call = "SymbolizeMinidump"
            /\ blast.value[1] = TRUE =>
                 blast.input[1] \in backend.most_recent_symbolized_minidump_paths)

\* the upload of a dump failed and the dump was symbolized and recorded
C24_Witness ==
    /\ blast.op = "SymbolizeMinidump"
    /\ blast.input = <<DumpNames[1]>>
    /\ blast.calls = <<BackendCall("cloud_storage.Insert", 0, DumpNames[1]),
                       BackendCall("logging.error", 0, DumpNames[1]),
                       BackendCall("SymbolizeMinidump", 0, DumpNames[1])>>
    /\ blast.value = <<TRUE, STACK>>
    /\ DumpNames[1] \in backend.most_recent_symbolized_minidump_paths
    /\ DumpNames[1] \notin blast.symbolized_before

-----------------------------------------------------------------------------
(* C23 *)

\* the positions in a sequence of calls at which `name` is called
Positions(name, calls) == { i \in DOMAIN calls : calls[i].call = name }

\* the calls of a Close follow the escalation: at most one cooperative
\* request, one SIGINT and one kill, in that order, the request only on a
\* platform that supports it, the SIGINT never on Windows, and off Windows
\* no kill without a SIGINT before it
Escalates(self, calls) ==
    LET cooperative == Positions("CooperativelyShutdown", calls)
        sigint      == Positions("send_signal", calls)
        kill        == Positions("kill", calls)
    IN  /\ Cardinality(cooperative) <= 1
        /\ Cardinality(sigint) <= 1
        /\ Cardinality(kill) <= 1
        /\ \A i \in cooperative, j \in sigint \cup kill : i < j
        /\ \A i \in sigint, j \in kill : i < j
        /\ cooperative # {} => self.cooperative_shutdown_supported
        /\ sigint # {} => self.os_name # "win"
        /\ (kill # {} /\ self.os_name # "win") => sigint # {}

\* C23: Close escalates in a fixed order and applies a step only to a
\* browser that is still running: nothing is requested, signalled or killed
\* when the browser is not running at the call; the cooperative request is
\* made only with a platform that supports it; SIGINT is sent only off
\* Windows and not after the browser ended within the cooperative wait;
\* kill follows only a SIGINT wait that timed out (off Windows) and never a
\* wait within which the browser ended; kill never comes before SIGINT off
\* Windows.
C23_Escalation ==
    /\ [](\A f \in CloseOutcomes :
            LET out   == Close(backend, machine, f)
                names == CallNames(out.calls)
                ended_cooperatively ==
                   /\ "CooperativelyShutdown" \in names
                   /\ f.raises # "CooperativelyShutdown"
                   /\ f.cooperative = "exit"
                ended_politely ==
                   /\ "send_signal" \in names
                   /\ f.raises # "send_signal"
                   /\ f.sigint = "exit"
            IN  /\ Escalates(backend, out.calls)
                /\ ~IsBrowserRunning(backend, machine) =>
                     names \cap {"CooperativelyShutdown", "send_signal", "kill"} = {}
                /\ ended_cooperatively => names \cap {"send_signal", "kill"} = {}
                /\ ended_politely => "kill" \notin names
                /\ (/\ IsBrowserRunning(backend, machine)
                    /\ f.raises = ""
                    /\ ~ended_cooperatively
                    /\ ~ended_politely) => "kill" \in names)
    /\ [](blast.op = "Close" => Escalates(backend, blast.calls))
    /\ [][ (blast'.op = "Close" /\ ~IsBrowserRunning(backend, machine))
              => CallNames(blast'.calls)
                    \cap {"CooperativelyShutdown", "send_signal", "kill"} = {} ]_vars

\* a Close went through the three steps: the cooperative wait and the wait
\* after SIGINT timed out and the browser was killed
C23_Witness ==
    /\ blast.op = "Close"
    /\ backend.os_name = "linux"
    /\ backend.cooperative_shutdown_supported
    /\ Positions("CooperativelyShutdown", blast.calls) = {2}
    /\ Positions("send_signal", blast.calls) = {4}
    /\ Positions("kill", blast.calls) = {7}
    /\ machine.procs = <<<<SignalReturnCodes.SIGKILL>>>>

-----------------------------------------------------------------------------
(* C25 *)

\* the lines of the file as _FindDevToolsPortAndTarget reads them
StrippedLines(file) ==
    IF file.exists
    THEN [i \in DOMAIN FileLines(file.text) |-> RStrip(FileLines(file.text)[i])]
    ELSE <<>>

\* the file has a line that is not empty
HasNonEmptyLine(file) == \E i \in DOMAIN StrippedLines(file) : StrippedLines(file)[i] # <<>>

\* C25: reading a DevToolsActivePort file without a non-empty line (missing,
\* empty, or holding only line terminators and blanks) raises
\* EnvironmentError and returns nothing; reading a file whose first line is
\* a decimal number returns that number as the port, with the second line
\* as the target, or no target when there is no second line.
C25_OnlyNonEmptyLineIsValid ==
    blast.op = "_FindDevToolsPortAndTarget" =>
       LET file  == blast.input[1]
           lines == StrippedLines(file)
       IN  /\ ~HasNonEmptyLine(file) =>
                (blast.raised = "EnvironmentError" /\ blast.value = <<>>)
           /\ (lines # <<>> /\ ParseInt(lines[1]) # <<>>) =>
                /\ blast.raised = None
                /\ blast.value = <<ParseInt(lines[1])[1],
                                   IF Len(lines) >= 2 THEN <<lines[2]>> ELSE <<>>>>

-----------------------------------------------------------------------------
(* C27 *)

\* the calls made on the results stream, in order
StreamCalls == SelectSeq(io, LAMBDA c : c.obj = "results_stream")

\* C27: a ledger made with an intermediate directory holds an open results
\* stream from its construction; the stream is open exactly as long as the
\* ledger is not finalized, and nothing is written to it so far; in a
\* finalized ledger it is closed, it was closed once, and the close is the
\* last call made on it, so that no record follows the close.  A ledger
\* made without an intermediate directory never has a stream and calls
\* none.  No call on the stream is made by a step that does not finalize
\* the ledger.
C27_StreamClosedOnce ==
    /\ last.op = "__init__" => results.results_stream \in {None, "open"}
    /\ [](/\ results.results_stream = None => StreamCalls = <<>>
          /\ results.results_stream # None =>
               IF results.finalized
               THEN /\ results.results_stream = "closed"
                    /\ Len(SelectSeq(io, IsClose)) = 1
                    /\ IsClose(StreamCalls[Len(StreamCalls)])
                    /\ \A i \in 1..(Len(StreamCalls) - 1) : IsWrite(StreamCalls[i])
               ELSE /\ results.results_stream = "open"
                    /\ StreamCalls = <<>>)
    /\ [][ /\ (results.results_stream = None) <=> (results'.results_stream = None)
           /\ results.results_stream = "closed" => results'.results_stream = "closed"
           /\ (results.finalized \/ ~results'.finalized)
                => SelectSeq(io', LAMBDA c : c.obj = "results_stream") = StreamCalls ]_vars

\* a Finalize with a cause wrote the record of the completed run and closed
\* the stream, and a second Finalize has left the stream alone
C27_Witness ==
    /\ last.op = "Finalize"
    /\ last.finalized_before
    /\ results.interruption # None
    /\ results.results_stream = "closed"
    /\ Len(StreamCalls) = 2
    /\ IsWrite(StreamCalls[1])
    /\ IsClose(StreamCalls[2])


-----------------------------------------------------------------------------
(* C28 *)

\* C28: an AddMeasurement that raises leaves the ledger as it was: whatever
\* the name, the unit and the samples, when the call made in this state is
\* rejected (no current run, a unit other than the registered one, samples
\* that are not numeric), the map from names to units after the call is the
\* map before it; a call rejected for its samples registers no unit for a
\* name that had none.
C28_FailedAddMeasurementChangesNothing ==
    \A name \in Names, unit \in Units, samples \in SampleValues :
        LET out == AddMeasurement(results, name, unit, samples)
        IN  out.raised # None =>
              /\ out.self.measurement_units = results.measurement_units
              /\ (out.raised = "TypeError" /\ results.measurement_units[name] = None)
                    => out.self.measurement_units[name] = None


-----------------------------------------------------------------------------
(* C29 *)

\* the notifications of the progress reporter, in order
ReporterCalls == SelectSeq(io, LAMBDA c : c.obj = "progress_reporter")

\* the notifications about stories: all but DidFinishAllStories
StoryCalls == SelectSeq(ReporterCalls, LAMBDA c : ~IsDidFinishAllStories(c))

\* C29: the notifications of the progress reporter follow the run protocol.
\* The notifications about stories alternate, WillRunStory first, and each
\* DidRunStory is about the run of the WillRunStory before it; when
\* DidRunStory is issued the ledger holds exactly the runs completed
\* earlier, so the run it is about is not appended yet.  DidFinishAllStories
\* is issued exactly when the ledger becomes finalized, hence at most once;
\* the ledger it is handed is already marked finalized, it is the last
\* notification, and every record written to the results stream is written
\* after it.
C29_ReporterProtocol ==
    /\ \A i \in DOMAIN StoryCalls :
          /\ i % 2 = 1 => IsWillRunStory(StoryCalls[i])
          /\ i % 2 = 0 => /\ IsDidRunStory(StoryCalls[i])
                          /\ StoryCalls[i].run = StoryCalls[i - 1].run
                          /\ StoryCalls[i].completed = (i \div 2) - 1
          /\ ~StoryCalls[i].finalized
    /\ Len(SelectSeq(io, IsDidRunStory)) = Len(results.all_story_runs)
    /\ Len(SelectSeq(io, IsDidFinishAllStories)) = IF results.finalized THEN 1 ELSE 0
    /\ \A i \in DOMAIN ReporterCalls :
          IsDidFinishAllStories(ReporterCalls[i]) =>
             /\ i = Len(ReporterCalls)
             /\ ReporterCalls[i].finalized
    /\ \A j \in DOMAIN io :
          IsWrite(io[j]) => \E i \in 1..(j - 1) : IsDidFinishAllStories(io[i])

\* two runs were completed, each notified before it was appended, and
\* Finalize then notified the reporter once and wrote the two records
C29_Witness ==
    /\ last.op = "Finalize"
    /\ last.raised = None
    /\ ~last.finalized_before
    /\ Len(StoryCalls) = 4
    /\ StoryCalls[2].completed = 0
    /\ StoryCalls[4].completed = 1
    /\ Len(ReporterCalls) = 5
    /\ IsDidFinishAllStories(ReporterCalls[5])
    /\ Len(SelectSeq(io, IsWrite)) = 2


-----------------------------------------------------------------------------
(* C30 *)

-----------------------------------------------------------------------------
(* C22 *)

\* the polls of the minidump finder among the calls of a sequence
FinderPolls(calls) == SelectSeq(calls, LAMBDA c : c.call = "GetMostRecentMinidump")

\* the explanation obtained last by the polls of a sequence of calls
LastExplanation(calls) ==
    IF FinderPolls(calls) = <<>> THEN NO_EXPLANATION
    ELSE FinderPolls(calls)[Len(FinderPolls(calls))].explanation

\* a call of GetRecentMinidumpPathWithTimeout is past its assertions
Waiting == wait.pc \in {"while", "poll"}

\* C22: a GetRecentMinidumpPathWithTimeout that returns a dump returns the
\* one its last poll of the finder reported as the most recent, and the
\* modification time of that dump is at least oldest_ts; a call that tests
\* its loop condition when the timeout has elapsed returns None, and a call
\* returns None only then; every exit from the loop, with a dump, with None
\* or by an exception, is preceded by one logging.info of the lines of the
\* explanation obtained last (of the initial one when no poll returned),
\* joined by newlines; and while the clock moves on, every call that
\* entered its loop ends.
C22_WaitForDump ==
    /\ [][ (Waiting /\ wait'.pc = "idle") =>
              /\ blast'.op = "GetRecentMinidumpPathWithTimeout"
              /\ blast'.input = <<wait.timeout_s, wait.oldest_ts>>
              /\ blast'.value # <<>> =>
                    /\ wait.pc = "poll"
                    /\ blast'.raised = None
                    /\ blast'.value =
                          FinderMostRecentMinidump(machine, backend.tmp_minidump_dir)
                    /\ blast'.value = FinderPolls(blast'.calls)
                                         [Len(FinderPolls(blast'.calls))].value
                    /\ GetMTime(machine, mtimes, blast'.value[1]) >= wait.oldest_ts
              /\ (blast'.value = <<>> /\ blast'.raised = None) =>
                    /\ wait.pc = "while"
                    /\ now - wait.start_time >= wait.timeout_s
              /\ blast'.calls # <<>>
              /\ blast'.calls[Len(blast'.calls)] =
                    BackendCall("logging.info", 0,
                                JoinLines(LastExplanation(blast'.calls)))
              /\ Len(SelectSeq(blast'.calls,
                               LAMBDA c : c.call = "logging.info")) = 1 ]_vars
    /\ [][ (wait.pc = "while" /\ wait' # wait
              /\ now - wait.start_time >= wait.timeout_s) =>
              /\ wait'.pc = "idle"
              /\ blast'.value = <<>>
              /\ blast'.raised = None ]_vars
    /\ [](Waiting => <>(wait.pc = "idle"))

\* a call that accepts no dump older than 1 polled twice: the first poll
\* found a.dmp, written at 0, and went on; the second found b.dmp and the
\* call returned it and logged the explanation of the second poll
C22_Witness ==
    /\ blast.op = "GetRecentMinidumpPathWithTimeout"
    /\ blast.input[2] = 1
    /\ blast.value = <<DumpNames[2]>>
    /\ Len(FinderPolls(blast.calls)) = 2
    /\ FinderPolls(blast.calls)[1].value = <<DumpNames[1]>>
    /\ mtimes[1] = 0
    /\ mtimes[2] >= 1
    /\ blast.calls[Len(blast.calls)].path =
          "Found minidumps\nMost recent: /tmp/minidumps/b.dmp"

-----------------------------------------------------------------------------
(* C26 *)

\* the calls made so far by the call of GetRecentMinidumpPathWithTimeout in
\* progress, or by the last call on the supervisor
CallsOfWait == IF Waiting THEN wait.calls ELSE blast.calls

\* C26: between any two polls of the minidump finder made by one call of
\* GetRecentMinidumpPathWithTimeout, the call sleeps.
C26_SleepsBetweenPolls ==
    \A i, j \in DOMAIN CallsOfWait :
       (/\ i < j
        /\ CallsOfWait[i].call = "GetMostRecentMinidump"
        /\ CallsOfWait[j].call = "GetMostRecentMinidump")
          => \E k \in (i + 1)..(j - 1) : CallsOfWait[k].call = "sleep"

=============================================================================
